---------------------------- MODULE Spec2Model ----------------------------
(***************************************************************************)
(* Model of the MCP protocol explorer: two providers (MCP/server.py and    *)
(* mcp_server_explorer.py) and two controllers (MCP/client.py and          *)
(* mcp_client_explorer.py).                                                *)
(*                                                                         *)
(* Six specifications share the module:                                    *)
(*   ChunkSpec    - the chunked resource engine (fs://chunks, fs://chunk)  *)
(*   Spec         - one session between a controller and a provider        *)
(*   SamplingSpec - the controller's sampling callback on any payload      *)
(*   PeerSpec     - a provider served by a peer that sends any message     *)
(*   ResolveSpec  - the resolution of a resource URI by a provider         *)
(*   ExplorerSpec - one method of the explorer controller on a session     *)
(* FairSpec is Spec under fair scheduling and delivery.                    *)
(***************************************************************************)
EXTENDS Integers, Sequences, FiniteSets, TLC

VARIABLES
    server,      \* which provider implementation runs: "basic" | "explorer"
    client,      \* which controller implementation runs: "basic" | "explorer"
    file,        \* ChunkSpec: the file found at the path of the resource URI
    meta,        \* ChunkSpec: result of the last fs://chunks/{file} read
    chunk,       \* ChunkSpec: index and result of the last fs://chunk read
    assembled,   \* ChunkSpec: concatenation of the chunks read in index order
    nextIdx,     \* ChunkSpec: next chunk index of the in-order reassembly
    payload,     \* SamplingSpec: the createMessage params given to the callback
    outcome,     \* SamplingSpec: what the sampling callback did with payload
    uri,         \* ResolveSpec: the URI of a resources/read request
    resolved,    \* ResolveSpec: the registered entry the provider resolved it to
    clientCaps,  \* Spec: capabilities the controller advertises in initialize
    serverVersion, \* Spec: protocol version the provider answers with
    cpc,         \* Spec: where the controller's main task is
    cstep,       \* Spec: index of the script step the main task is at
    cwait,       \* Spec: id of the request the main task awaits, -1 if none
    cresp,       \* Spec: response handed to the main task, NoMsg if none
    cloop,       \* Spec: controller receive loop: "running" | "off" | "crashed"
    ctools,      \* Spec: tool names the controller got from tools/list
    cprompts,    \* Spec: prompt names the controller got from prompts/list
    nextCid,     \* Spec: next request id of the controller
    c2s,         \* Spec: messages in flight, controller to provider (FIFO)
    s2c,         \* Spec: messages in flight, provider to controller (FIFO)
    srvInit,     \* Spec: provider session state
    peerCaps,    \* Spec: capabilities the provider recorded for its peer
    tasks,       \* Spec: tool handlers suspended in the provider
    nextSid,     \* Spec: next request id of the provider
    log,         \* Spec: history of the messages sent and received
    session,     \* Spec: the controller holds an initialized session
    cmethod,     \* ExplorerSpec: the method of EnhancedMCPClient that runs
    ctemplates,  \* ExplorerSpec: capabilities.resource_templates
    cresources,  \* ExplorerSpec: capabilities.resources
    results,     \* ExplorerSpec: results of test_client_capabilities
    client_capabilities  \* ExplorerSpec: the recorded client capabilities

chunkVars == <<file, meta, chunk, assembled, nextIdx>>
samplingVars == <<payload, outcome>>
resolveVars == <<uri, resolved>>
ctlVars == <<clientCaps, cpc, cstep, cwait, cresp, cloop, ctools, cprompts,
             nextCid>>
srvVars == <<serverVersion, srvInit, peerCaps, tasks, nextSid>>
netVars == <<c2s, s2c, log>>
explorerVars == <<cmethod, ctemplates, cresources, results,
                  client_capabilities>>
sessionVars == <<ctlVars, srvVars, netVars, session, explorerVars>>
vars == <<server, client, file, meta, chunk, assembled, nextIdx,
          payload, outcome, uri, resolved, sessionVars>>

Servers == {"basic", "explorer"}
Clients == {"basic", "explorer"}

(***************************************************************************)
(* Bounds                                                                  *)
(***************************************************************************)
MaxLen == 2500        \* longest file text, in characters
MaxIndex == 4         \* largest chunk index requested
MaxNegIndex == 2      \* most negative chunk index requested is -MaxNegIndex

(***************************************************************************)
(* Configuration of the providers                                          *)
(***************************************************************************)
CHUNK_SIZE == 1024
MAX_FILE_SIZE == 10 * 1024 * 1024
\* ALLOWED_EXTENSIONS: only membership matters; ".txt" and ".py" stand for
\* the allowed suffixes, ".bin" for any other suffix.
ALLOWED_EXTENSIONS == {".txt", ".py"}

(***************************************************************************)
(* Strings.  A string is a sequence of integers.  A character of a file    *)
(* text is Ch(k) = k > 0, k being its position in the file, so that a lost,*)
(* duplicated or reordered character is visible.  A fixed part of a string *)
(* that a provider formats, together with the number interpolated after    *)
(* it, is one negative item Lit(t, n); FmtTok and FmtNum read it back.     *)
(***************************************************************************)
Toks == << "Error: not a valid file",
           "Error reading chunk",
           "Error: File type not supported",
           "Error: File too large",
           "Error: Chunk does not exist",
           "File has chunks",
           "--- Chunk Metadata ---",
           "start_pos", "end_pos", "chunk_length", "is_final_chunk",
           "--- Chunk Content ---" >>
FmtRadix == 2 ^ 16
FmtShift == 2 ^ 15
Ch(k) == k
Lit(t, n) ==
    0 - ((CHOOSE i \in 1..Len(Toks) : Toks[i] = t) * FmtRadix + n + FmtShift)
FmtTok(x) == Toks[(0 - x) \div FmtRadix]
FmtNum(x) == ((0 - x) % FmtRadix) - FmtShift

Min(a, b) == IF a < b THEN a ELSE b
Max(a, b) == IF a > b THEN a ELSE b

\* Python's s[start:end]: negative bounds count from the end, then both are
\* clamped to 0..len(s).
PyBound(n, b) == IF b < 0 THEN Max(0, n + b) ELSE Min(n, b)
PySlice(s, start, end) ==
    LET lo == PyBound(Len(s), start)
        hi == PyBound(Len(s), end)
    IN  IF lo >= hi THEN << >> ELSE SubSeq(s, lo + 1, hi)

(***************************************************************************)
(* Files.  kind "file" is a regular file; ext its suffix; size its length  *)
(* in bytes; len the number of characters of its text; decodable whether   *)
(* its bytes decode in the default encoding.                               *)
(***************************************************************************)
TextFile(n) == [kind |-> "file", ext |-> ".txt", size |-> n, len |-> n,
                decodable |-> TRUE]
NotAFile == [kind |-> "dir", ext |-> "", size |-> 0, len |-> 0,
             decodable |-> TRUE]
BinFile(n) == [kind |-> "file", ext |-> ".bin", size |-> n, len |-> n,
               decodable |-> TRUE]
UndecodableFile(n) == [kind |-> "file", ext |-> ".txt", size |-> n, len |-> n,
                       decodable |-> FALSE]

\* A text file one byte above the size ceiling of mcp_server_explorer.py.
BigFile == TextFile(MAX_FILE_SIZE + 1)

OddLengths == {0, 1, CHUNK_SIZE, CHUNK_SIZE + 1}
Files == {TextFile(n) : n \in 0..MaxLen}
         \cup {NotAFile, BigFile}
         \cup {BinFile(n) : n \in OddLengths}
         \cup {UndecodableFile(n) : n \in OddLengths}

\* path.read_text(): the text of the file, character k being Ch(k).
read_text(f) == [k \in 1..f.len |-> Ch(k)]

\* A readable file: both providers serve its text.
Readable(f) ==
    /\ f.kind = "file"
    /\ f.ext \in ALLOWED_EXTENSIONS
    /\ f.size <= MAX_FILE_SIZE
    /\ f.decodable

(***************************************************************************)
(* fs://chunk/{file_path}/{chunk_index}                                    *)
(***************************************************************************)
\* The providers report a failed read as a text that starts with "Error".
ErrorToks == {"Error: not a valid file", "Error reading chunk",
              "Error: File type not supported", "Error: File too large",
              "Error: Chunk does not exist"}
IsErrorText(s) == Len(s) > 0 /\ s[1] < 0 /\ FmtTok(s[1]) \in ErrorToks

\* MCP/server.py
server_get_file_chunk(f, chunk_index) ==
    IF f.kind # "file" THEN << Lit("Error: not a valid file", 0) >>
    ELSE IF ~f.decodable THEN << Lit("Error reading chunk", 0) >>
    ELSE LET text == read_text(f)
             start == chunk_index * CHUNK_SIZE
             end == start + CHUNK_SIZE
         IN  IF start < Len(text) THEN PySlice(text, start, end) ELSE << >>

\* mcp_server_explorer.py
explorer_get_file_chunk(f, chunk_index) ==
    IF f.kind # "file" THEN << Lit("Error: not a valid file", 0) >>
    ELSE IF f.ext \notin ALLOWED_EXTENSIONS
         THEN << Lit("Error: File type not supported", 0) >>
    ELSE IF f.size > MAX_FILE_SIZE THEN << Lit("Error: File too large", 0) >>
    ELSE LET text == read_text(f)
             start == chunk_index * CHUNK_SIZE
             end == start + CHUNK_SIZE
         IN  IF start >= Len(text)
             THEN << Lit("Error: Chunk does not exist", chunk_index),
                     Lit("File has chunks",
                         (Len(text) + CHUNK_SIZE - 1) \div CHUNK_SIZE) >>
             ELSE LET chunk_content == PySlice(text, start, end)
                  IN  << Lit("--- Chunk Metadata ---", chunk_index),
                         Lit("start_pos", start),
                         Lit("end_pos", Min(end, Len(text))),
                         Lit("chunk_length", Len(chunk_content)),
                         Lit("is_final_chunk",
                             IF end >= Len(text) THEN 1 ELSE 0),
                         Lit("--- Chunk Content ---", 0) >>
                      \o chunk_content

get_file_chunk(s, f, chunk_index) ==
    IF s = "basic" THEN server_get_file_chunk(f, chunk_index)
    ELSE explorer_get_file_chunk(f, chunk_index)

(***************************************************************************)
(* fs://chunks/{file_path}                                                 *)
(***************************************************************************)
\* Mutation: the links are numbered from 1.
ChunkLinkFromOne(f, i) == [file |-> f, index |-> i + 1]

\* f"fs://chunk/{file_path}/{i}"
ChunkLink(f, i) == [file |-> f, index |-> i]

MetaError(reason) ==
    [error |-> reason, length |-> 0, chunk_size |-> 0, total_chunks |-> 0,
     chunks |-> << >>]
MetaOk(f, length, total) ==
    [error |-> "", length |-> length, chunk_size |-> CHUNK_SIZE,
     total_chunks |-> total,
     chunks |-> [i \in 1..total |-> ChunkLink(f, i - 1)]]

\* MCP/server.py
server_total_chunks(n) == (n + CHUNK_SIZE - 1) \div CHUNK_SIZE
server_read_file_chunks(f) ==
    IF f.kind # "file" THEN MetaError("not a valid file")
    ELSE IF ~f.decodable THEN MetaError("Error processing file")
    ELSE LET text == read_text(f)
         IN  MetaOk(f, Len(text), server_total_chunks(Len(text)))

\* mcp_server_explorer.py
explorer_total_chunks(n) == Max(1, (n + CHUNK_SIZE - 1) \div CHUNK_SIZE)

\* Mutation: the suffix of the file is not checked.
explorer_read_file_chunks_any_type(f) ==
    IF f.kind # "file" THEN MetaError("not a valid file")
    ELSE IF f.size > MAX_FILE_SIZE THEN MetaError("File too large")
    ELSE LET text == read_text(f)
         IN  MetaOk(f, Len(text), explorer_total_chunks(Len(text)))

explorer_read_file_chunks(f) ==
    IF f.kind # "file" THEN MetaError("not a valid file")
    ELSE IF f.ext \notin ALLOWED_EXTENSIONS
         THEN MetaError("File type not supported")
    ELSE IF f.size > MAX_FILE_SIZE THEN MetaError("File too large")
    ELSE LET text == read_text(f)
         IN  MetaOk(f, Len(text), explorer_total_chunks(Len(text)))

read_file_chunks(s, f) ==
    IF s = "basic" THEN server_read_file_chunks(f)
    ELSE explorer_read_file_chunks(f)

NoMeta == MetaError("not read")
NoChunk == [index |-> 0, read |-> FALSE, out |-> << >>]

(***************************************************************************)
(* Texts of the session layer.  A text is a sequence of string pieces: the *)
(* fixed parts of an f-string and the values interpolated between them.    *)
(***************************************************************************)

(***************************************************************************)
(* createMessage params.  A JSON value is [t, scheme, rest]: t = "missing" *)
(* when the key is absent, "str" for a string (scheme is what precedes     *)
(* "://", rest what follows), "int" for a number.  metadata.given is FALSE *)
(* when the params carry no metadata (None).                               *)
(***************************************************************************)
NoVal == [t |-> "missing", scheme |-> "", rest |-> ""]
StrVal(scheme, rest) == [t |-> "str", scheme |-> scheme, rest |-> rest]
IntVal == [t |-> "int", scheme |-> "", rest |-> "42"]

NoMetadata == [given |-> FALSE, uri |-> NoVal, name |-> NoVal]
Metadata(u, n) == [given |-> TRUE, uri |-> u, name |-> n]

TextMessage(text) == [role |-> "user", type |-> "text", text |-> text]
ImageMessage == [role |-> "user", type |-> "image", text |-> ""]

CreateMessageRequestParams(messages, max_tokens, metadata) ==
    [messages |-> messages, max_tokens |-> max_tokens, metadata |-> metadata]

UriValues == {NoVal, StrVal("file", "/path/to/directory"),
              StrVal("https", "example.com/"), StrVal("", "not a url"),
              IntVal}
NameValues == {NoVal, StrVal("", "Project Directory"), IntVal}
MessageLists == {<< >>, << TextMessage("Hi Model!") >>, << ImageMessage >>,
                 << TextMessage("Hi Model!"), ImageMessage >>}
Payloads ==
    {CreateMessageRequestParams(m, 100, md) :
        m \in MessageLists,
        md \in {NoMetadata} \cup {Metadata(u, n) : u \in UriValues,
                                                   n \in NameValues}}

\* types.Root(**metadata): TypeError when metadata is None; ValidationError
\* unless uri is a file URL and name, when present, a string.
Root(metadata) ==
    IF ~metadata.given
    THEN [exc |-> "TypeError", uri |-> NoVal, name |-> NoVal]
    ELSE IF metadata.uri.t # "str" \/ metadata.uri.scheme # "file"
    THEN [exc |-> "ValidationError", uri |-> NoVal, name |-> NoVal]
    ELSE IF metadata.name.t \notin {"missing", "str"}
    THEN [exc |-> "ValidationError", uri |-> NoVal, name |-> NoVal]
    ELSE [exc |-> "", uri |-> metadata.uri, name |-> metadata.name]

\* bool(metadata): a dict is truthy when it has a key.
Truthy(metadata) ==
    metadata.given /\ (metadata.uri.t # "missing" \/ metadata.name.t # "missing")

CreateMessageResult(role, text, model, stopReason) ==
    [role |-> role, text |-> text, model |-> model, stopReason |-> stopReason]
NoResult == CreateMessageResult("", << >>, "", "")

\* What a callback did: the handler that ran last, the exception that left
\* the callback ("" when it returned) and the result it returned.
Returned(handler, result) ==
    [called |-> TRUE, handler |-> handler, exc |-> "", result |-> result]
Raised(handler, exc) ==
    [called |-> TRUE, handler |-> handler, exc |-> exc, result |-> NoResult]
NoOutcome ==
    [called |-> FALSE, handler |-> "", exc |-> "", result |-> NoResult]

(***************************************************************************)
(* MCP/client.py: the sampling callback                                    *)
(***************************************************************************)
handle_text_message(arguments) ==
    IF arguments.messages = << >> THEN Raised("text", "IndexError")
    ELSE IF arguments.messages[1].type # "text"
    THEN Raised("text", "AttributeError")
    ELSE Returned("text",
            CreateMessageResult("assistant",
                << "In: ", arguments.messages[1].text,
                   " Out: Hello, world! from model" >>,
                "gpt-3.5-turbo", "endTurn"))

handle_root_message(root) ==
    Returned("root",
        CreateMessageResult("user",
            << "- main.py\n- requirements.txt\n- utils/\n- README.md" >>,
            "root-reader", ""))

\* Mutation: the metadata is not parsed, every request is a text request.
handle_sampling_message_text_only(arguments) ==
    handle_text_message(arguments)

handle_sampling_message(arguments) ==
    LET root == Root(arguments.metadata)
    IN  IF root.exc = "" THEN handle_root_message(root)
        ELSE handle_text_message(arguments)

(***************************************************************************)
(* mcp_client_explorer.py: the sampling callback                           *)
(***************************************************************************)
\* '"file://" in root.uri' applies "in" to a Url object, which is not
\* iterable: the TypeError is caught by the handler's own except clause.
handle_root_request(root) ==
    Returned("root",
        CreateMessageResult("user",
            << "Error accessing root ", root.uri.rest, ": ",
               "argument of type 'Url' is not iterable" >>,
            "root-reader-v2", ""))

handle_text_sampling(arguments) ==
    IF arguments.messages # << >> /\ arguments.messages[1].type # "text"
    THEN Raised("text", "AttributeError")
    ELSE LET message_text ==
                 IF arguments.messages = << >>
                 THEN "Hello from the enhanced MCP client!"
                 ELSE arguments.messages[1].text
         IN  Returned("text",
                CreateMessageResult("assistant",
                    << "Enhanced Client Response / Received: ", message_text,
                       " / Status: Message processed successfully" >>,
                    "enhanced-mcp-client-v2", "endTurn"))

\* The except clause catches ValidationError and TypeError only and runs
\* the text handler again; what the text handler raises is neither.
sampling_callback(arguments) ==
    IF Truthy(arguments.metadata)
    THEN LET root == Root(arguments.metadata)
         IN  IF root.exc = "" THEN handle_root_request(root)
             ELSE handle_text_sampling(arguments)
    ELSE handle_text_sampling(arguments)

\* The callback registered as sampling_callback by controller c.
SamplingCallback(c, arguments) ==
    IF c = "basic" THEN handle_sampling_message(arguments)
    ELSE sampling_callback(arguments)

(***************************************************************************)
(* Session: capabilities and protocol versions                             *)
(***************************************************************************)
Caps == {"sampling", "roots", "experimental"}

LATEST_PROTOCOL_VERSION == "latest"
SUPPORTED_PROTOCOL_VERSIONS == {"previous", "latest"}
\* Versions a provider may answer the initialize request with.
ServerVersions == SUPPORTED_PROTOCOL_VERSIONS \cup {"unsupported"}

\* Mutation: the version of the initialize result is not checked.
VersionUnchecked(v) == TRUE

\* result.protocolVersion not in SUPPORTED_PROTOCOL_VERSIONS raises.
VersionSupported(v) == v \in SUPPORTED_PROTOCOL_VERSIONS

\* Mutation: the capability check passes whatever the peer advertised.
check_client_capability_ignored(caps, cap) == TRUE

\* context.session.check_client_capability(ClientCapabilities(cap=...))
check_client_capability(caps, cap) == cap \in caps

(***************************************************************************)
(* Messages.  One record shape for requests, responses and notifications;  *)
(* the fields a message does not use keep the values of NoMsg.             *)
(*   name    tool name, prompt name or resource URI of a request           *)
(*   arg     the text argument of a tool call                              *)
(*   params  createMessage params                                          *)
(*   ok      response: FALSE for a JSON-RPC error, which raises at the     *)
(*           requester                                                     *)
(*   isError tools/call response: the isError flag of the result           *)
(*   content response: list of texts                                       *)
(*   roots   roots/list response: list of Root [uri, name]                 *)
(*   result  createMessage response                                        *)
(*   progress, total  progress notification: fractions << num, den >>      *)
(***************************************************************************)
NoParams == CreateMessageRequestParams(<< >>, 0, NoMetadata)
NoMsg == [kind |-> "none", id |-> -1, method |-> "", name |-> "", arg |-> "",
          params |-> NoParams, version |-> "", caps |-> {}, ok |-> TRUE,
          isError |-> FALSE, content |-> << >>, roots |-> << >>,
          result |-> NoResult, progress |-> << 0, 1 >>, total |-> << 0, 1 >>]

Request(id, method, name, arg) ==
    [NoMsg EXCEPT !.kind = "request", !.id = id, !.method = method,
                  !.name = name, !.arg = arg]
Notification(method) ==
    [NoMsg EXCEPT !.kind = "notification", !.method = method]
Response(req, ok, content) ==
    [NoMsg EXCEPT !.kind = "response", !.id = req.id, !.method = req.method,
                  !.name = req.name, !.ok = ok, !.content = content]

\* A history entry: side "c" (controller) or "s" (provider) sent or
\* received msg; tool and call name the tool handler, and the id of the
\* tools/call request it serves, on whose behalf the provider acted.
Event(side, ev, msg, tool, call) ==
    [side |-> side, ev |-> ev, msg |-> msg, tool |-> tool, call |-> call]

(***************************************************************************)
(* The controllers' scripts after the handshake.  guard names the tool     *)
(* that must be in the list obtained from tools/list ("" for none);        *)
(* catch = 0 when a failed request raises out of the script, k > 0 when    *)
(* an except clause resumes the script k steps further.                    *)
(***************************************************************************)
Step(method, name, arg, guard, catch) ==
    [method |-> method, name |-> name, arg |-> arg, guard |-> guard,
     catch |-> catch]

\* Mutation: the call is not guarded by the list of tools.
CallStepUnguarded(tool, arg, catch) == Step("tools/call", tool, arg, "", catch)

\* A call of a tool: "if any(t.name == tool for t in tools)" around
\* call_tool(tool, ...)
CallStep(tool, arg, catch) == Step("tools/call", tool, arg, tool, catch)

\* MCP/client.py run()
BasicScript == <<
    Step("ping", "", "", "", 0),
    Step("prompts/list", "", "", "", 0),
    Step("prompts/get", "prompts[0]", "", "", 0),
    Step("tools/list", "", "", "", 0),
    CallStep("list_directory", ".", 0),
    CallStep("check_experimental_tools_capability", "", 0),
    CallStep("check_sampling_capability", "Hi Model!", 0),
    Step("resources/templates/list", "", "", "", 0),
    Step("resources/read", "fs://chunks/client.py", "", "", 0),
    Step("resources/read", "fs://chunk/client.py/0", "", "", 0),
    Step("notifications/progress", "loading", "", "", 0),
    Step("resources/list", "", "", "", 0),
    Step("resources/read", "fs://sample", "", "", 0),
    Step("resources/subscribe", "fs://sample", "", "", 2),
    Step("resources/unsubscribe", "fs://sample", "", "", 1),
    CallStep("check_roots_capability", "", 0) >>

\* Mutation: one try/except around the four list requests, so that a
\* failure skips the requests after it.
DiscoverScriptOneTry == <<
    Step("prompts/list", "", "", "", 4),
    Step("tools/list", "", "", "", 3),
    Step("resources/templates/list", "", "", "", 2),
    Step("resources/list", "", "", "", 1) >>

\* mcp_client_explorer.py discover_server_capabilities(): each list request
\* has its own try/except.
DiscoverScript == <<
    Step("prompts/list", "", "", "", 1),
    Step("tools/list", "", "", "", 1),
    Step("resources/templates/list", "", "", "", 1),
    Step("resources/list", "", "", "", 1) >>

\* mcp_client_explorer.py test_client_capabilities()
TestScript == <<
    CallStep("check_sampling_capability",
             "Test prompt for capability checking", 1),
    CallStep("check_roots_capability", "", 1),
    CallStep("check_experimental_tools_capability", "", 1) >>

\* mcp_client_explorer.py explore_filesystem()
ExploreScript == <<
    CallStep("list_directory", ".", 1),
    CallStep("search_files", ".", 1),
    CallStep("get_file_info", "__file__", 1) >>

\* mcp_client_explorer.py send_progress_updates(): "for i in range(5)"
\* inside one try/except, so that a failure leaves the loop.
ProgressSteps == 5

\* Mutation: the try/except is inside the loop, which goes on after a
\* failure.
ProgressScriptTryInside ==
    [i \in 1..ProgressSteps |->
        Step("notifications/progress", "demo-progress", "", "", 1)]

ProgressScript ==
    [i \in 1..ProgressSteps |->
        Step("notifications/progress", "demo-progress", "", "",
             ProgressSteps + 1 - i)]

\* mcp_client_explorer.py run_comprehensive_demo(): ping, then
\* discover_server_capabilities() and test_client_capabilities().
ExplorerScript ==
    << Step("ping", "", "", "", 0) >> \o DiscoverScript \o TestScript

Script(c) == IF c = "basic" THEN BasicScript ELSE ExplorerScript

\* async with ClientSession(...) starts the receive loop of the session;
\* a ClientSession that is only constructed has no receive loop.
ReceiveLoopStarted(c) == c = "basic"

\* list_roots_callback
list_roots_callback(c) ==
    IF c = "basic"
    THEN << [uri |-> StrVal("file", "/path/to/directory"),
             name |-> StrVal("", "Project Directory")] >>
    ELSE << [uri |-> StrVal("file", "/"), name |-> StrVal("", "System Root")],
            [uri |-> StrVal("file", "/home"),
             name |-> StrVal("", "Home Directory")],
            [uri |-> StrVal("file", "/tmp"),
             name |-> StrVal("", "Temporary Directory")],
            [uri |-> StrVal("file", "/var/log"),
             name |-> StrVal("", "Log Directory")] >>

(***************************************************************************)
(* The providers: registered names                                         *)
(***************************************************************************)
CapabilityTools == {"check_experimental_tools_capability",
                    "check_sampling_capability", "check_roots_capability"}
ToolNames(s) ==
    IF s = "basic"
    THEN << "list_directory", "search_files",
            "check_experimental_tools_capability",
            "check_sampling_capability", "check_roots_capability" >>
    ELSE << "list_directory", "search_files", "get_file_info",
            "check_experimental_tools_capability",
            "check_sampling_capability", "check_roots_capability" >>
PromptNames(s) ==
    IF s = "basic"
    THEN << "result_summary_prompt", "usage_instructions",
            "exploration_guide" >>
    ELSE << "result_summary_prompt", "usage_instructions",
            "exploration_guide", "capability_testing_guide" >>
ResourceUris == << "fs://sample" >>
TemplateUris == << "fs://chunk/{file_path}/{chunk_index}",
                   "fs://chunks/{file_path}" >>
\* URIs of the scripts that match a registered resource or template.
KnownUris == {"fs://sample", "fs://chunks/client.py", "fs://chunk/client.py/0"}

Names(seq) == {seq[i] : i \in DOMAIN seq}
AsTexts(seq) == [i \in DOMAIN seq |-> << seq[i] >>]

\* The result of a request that no tool handler serves.  The providers
\* register no handler for resources/subscribe and resources/unsubscribe.
\* fs://chunks/missing names a path at which there is no file: the metadata
\* resource returns its error outcome.
ServerResult(s, req) ==
    CASE req.method = "ping" -> Response(req, TRUE, << >>)
      [] req.method = "prompts/list" ->
            Response(req, TRUE, AsTexts(PromptNames(s)))
      [] req.method = "prompts/get" ->
            IF req.name \in Names(PromptNames(s))
            THEN Response(req, TRUE, << << "prompt ", req.name >> >>)
            ELSE Response(req, FALSE, << << "Unknown prompt: ", req.name >> >>)
      [] req.method = "tools/list" ->
            Response(req, TRUE, AsTexts(ToolNames(s)))
      [] req.method = "resources/templates/list" ->
            Response(req, TRUE, AsTexts(TemplateUris))
      [] req.method = "resources/list" ->
            Response(req, TRUE, AsTexts(ResourceUris))
      [] req.method = "resources/read" ->
            IF req.name = "fs://chunks/missing"
            THEN Response(req, TRUE,
                    << << "error", ": ",
                          read_file_chunks(s, NotAFile).error >> >>)
            ELSE IF req.name \in KnownUris
            THEN Response(req, TRUE, << << "contents of ", req.name >> >>)
            ELSE Response(req, FALSE,
                          << << "Unknown resource: ", req.name >> >>)
      [] OTHER -> Response(req, FALSE, << << "Method not found" >> >>)

(***************************************************************************)
(* The providers: tool handlers.  A handler runs until it returns, which   *)
(* is Respond, or until it awaits a request to the controller, which is    *)
(* Ask; stage names the await it is suspended at.                          *)
(***************************************************************************)
Respond(isError, content) ==
    [act |-> "respond", isError |-> isError, content |-> content,
     method |-> "", params |-> NoParams, stage |-> "", roots |-> << >>]
Ask(method, params, stage, roots) ==
    [act |-> "ask", isError |-> FALSE, content |-> << >>, method |-> method,
     params |-> params, stage |-> stage, roots |-> roots]

\* The marks that open the result texts of mcp_server_explorer.py, as its
\* source writes them: three characters where a check mark was meant, and
\* likewise for the cross mark.
ProviderCheckMark == "<U+00E2 U+0153 U+2026>"
ProviderCrossMark == "<U+00E2 U+0152>"

SamplingUnsupported(s) ==
    IF s = "basic"
    THEN << "Error: Client does not support sampling capability." >>
    ELSE << ProviderCrossMark,
            " Error: Client does not support sampling capability." >>
RootsUnsupported(s) ==
    IF s = "basic"
    THEN << "Error: Client does not support roots capability." >>
    ELSE << ProviderCrossMark,
            " Error: Client does not support roots capability." >>

\* An error reply to a request of the provider raises in the handler.
ReplyRaises(reply) == reply.kind = "response" /\ ~reply.ok
\* "if response and response.content"
HasContent(reply) == reply.kind = "response" /\ reply.result # NoResult

\* Mutation: the exception is swallowed and the call returns an empty result.
ToolRaisedUnreported(tool, exc) == Respond(FALSE, << >>)

\* An exception that leaves a tool handler is reported by the tool runner
\* as the isError result of that call.
ToolRaised(tool, exc) ==
    Respond(TRUE, << << "Error executing tool ", tool, ": ", exc >> >>)

check_experimental_tools_capability(s, caps) ==
    LET is_supported == check_client_capability(caps, "experimental")
    IN  IF s = "basic"
        THEN Respond(FALSE,
                << << IF is_supported THEN "Supported"
                      ELSE "Not supported" >> >>)
        ELSE Respond(FALSE,
                << IF is_supported
                   THEN << "Experimental Tools Capability: ",
                           ProviderCheckMark, " Supported" >>
                   ELSE << "Experimental Tools Capability: ",
                           ProviderCrossMark, " Not supported" >> >>)

\* check_sampling_capability up to "await context.session.create_message"
check_sampling_capability(s, caps, prompt) ==
    IF ~check_client_capability(caps, "sampling")
    THEN Respond(FALSE, << SamplingUnsupported(s) >>)
    ELSE Ask("sampling/createMessage",
             CreateMessageRequestParams(<< TextMessage(prompt) >>, 100,
                                        NoMetadata),
             "create_message", << >>)

\* check_sampling_capability after the await.  MCP/server.py lets the
\* error of a failed request leave the handler, which the tool runner
\* reports as an isError result; mcp_server_explorer.py catches it.
check_sampling_capability_resume(s, reply) ==
    IF ReplyRaises(reply)
    THEN IF s = "basic"
         THEN ToolRaised("check_sampling_capability", "McpError")
         ELSE Respond(FALSE, << << "Error during sampling: " >>
                               \o reply.content >>)
    ELSE IF HasContent(reply)
    THEN IF s = "basic" THEN Respond(FALSE, << reply.result.text >>)
         ELSE Respond(FALSE,
                 << << ProviderCheckMark,
                       " Sampling successful! Response: '" >>
                    \o reply.result.text \o << "'" >> >>)
    ELSE IF s = "basic"
    THEN Respond(FALSE, << << "No response received." >> >>)
    ELSE Respond(FALSE,
            << << ProviderCrossMark,
                  " No response received from sampling request." >> >>)

\* check_roots_capability up to "await context.session.list_roots()"
check_roots_capability(s, caps) ==
    IF ~check_client_capability(caps, "roots")
    THEN Respond(FALSE, << RootsUnsupported(s) >>)
    ELSE Ask("roots/list", NoParams, "list_roots", << >>)

RootUris(roots) == [i \in DOMAIN roots |-> << "file://", roots[i].uri.rest >>]
RootLines(roots) ==
    [i \in 1..Min(5, Len(roots)) |->
        << roots[i].name.rest, ": ", "file://", roots[i].uri.rest >>]

\* Mutation: get_root_content sends no metadata.
get_root_content_without_metadata(root, roots) ==
    Ask("sampling/createMessage",
        CreateMessageRequestParams(<< >>, 0, NoMetadata),
        "get_root_content", roots)

\* get_root_content up to its "await context.session.create_message":
\* metadata is root.model_dump(), the uri and name of the root.
get_root_content(root, roots) ==
    Ask("sampling/createMessage",
        CreateMessageRequestParams(<< >>, 0, Metadata(root.uri, root.name)),
        "get_root_content", roots)

\* check_roots_capability after an await: stage "list_roots" is the reply
\* to roots/list, stage "get_root_content" (MCP/server.py only) the reply
\* to the createMessage of get_root_content.  Both providers catch.
check_roots_capability_resume(s, stage, roots, reply) ==
    IF ReplyRaises(reply)
    THEN Respond(FALSE, << << "Error during root capability check: " >>
                          \o reply.content >>)
    ELSE IF stage = "list_roots"
    THEN IF reply.roots = << >>
         THEN Respond(FALSE, << << "Error: No roots found." >> >>)
         ELSE IF s = "basic"
         THEN get_root_content(reply.roots[1], reply.roots)
         ELSE Respond(FALSE,
                 << << ProviderCheckMark, " Roots capability supported",
                       "! Found root(s):" >> >>
                 \o RootLines(reply.roots))
    ELSE Respond(FALSE,
            RootUris(roots)
            \o << IF HasContent(reply) THEN reply.result.text
                  ELSE << "No response received." >> >>)

\* Tools whose bodies are plain filesystem functions.
PlainTool(tool) == Respond(FALSE, << << "output of ", tool >> >>)

\* The directories a caller may name: "." can be listed, "missing" is not
\* a directory, "locked" is a directory whose listing is denied, so that
\* path.iterdir() raises PermissionError.
Directories == {".", "missing", "locked"}

\* list_directory: MCP/server.py checks is_dir() only;
\* mcp_server_explorer.py also catches what the listing raises.
list_directory(s, directory_path) ==
    IF directory_path = "missing"
    THEN Respond(FALSE, << << "Error: '", directory_path,
                             "' is not a valid directory" >> >>)
    ELSE IF directory_path = "locked"
    THEN IF s = "basic" THEN ToolRaised("list_directory", "PermissionError")
         ELSE Respond(FALSE, << << "Error: Permission denied accessing '",
                                  directory_path, "'" >> >>)
    ELSE Respond(FALSE, << << "contents of ", directory_path >> >>)

\* A tool handler from its start to its return or first await.
ToolStart(s, caps, req) ==
    IF req.name \notin Names(ToolNames(s))
    THEN Respond(TRUE, << << "Unknown tool: ", req.name >> >>)
    ELSE CASE req.name = "check_experimental_tools_capability" ->
                check_experimental_tools_capability(s, caps)
           [] req.name = "check_sampling_capability" ->
                check_sampling_capability(s, caps, req.arg)
           [] req.name = "check_roots_capability" ->
                check_roots_capability(s, caps)
           [] req.name = "list_directory" -> list_directory(s, req.arg)
           [] OTHER -> PlainTool(req.name)

\* A suspended tool handler from the reply it awaited to its return or
\* next await.
ToolResume(s, task) ==
    IF task.tool = "check_sampling_capability"
    THEN check_sampling_capability_resume(s, task.reply)
    ELSE check_roots_capability_resume(s, task.stage, task.roots, task.reply)

\* A suspended handler: req is the tools/call request it serves, await the
\* id of the request it sent to the controller, reply the response to it.
Task(req, stage, await, roots) ==
    [req |-> req, tool |-> req.name, stage |-> stage, await |-> await,
     roots |-> roots, reply |-> NoMsg]

\* The handler awaits the response that carries the id of its request.
Awaits(task, msg) == task.reply = NoMsg /\ task.await = msg.id
\* Mutation: the handler goes on without awaiting the response.
AwaitSkipped(task) == TRUE

\* The await returns once the response is there.
AwaitDone(task) == task.reply # NoMsg

\* EnhancedMCPClient.__init__: no method runs, every cache is empty and
\* every client capability is recorded as False.
CapabilityKeys == {"sampling", "roots", "experimental_tools"}
NoResults == [k \in CapabilityKeys |-> "unset"]
ExplorerIdle ==
    /\ cmethod = ""
    /\ ctemplates = << >>
    /\ cresources = << >>
    /\ results = NoResults
    /\ client_capabilities = [k \in CapabilityKeys |-> "False"]

SessionIdle ==
    /\ clientCaps = {}
    /\ serverVersion = LATEST_PROTOCOL_VERSION
    /\ cpc = "idle"
    /\ cstep = 1
    /\ cwait = -1
    /\ cresp = NoMsg
    /\ cloop = "off"
    /\ ctools = {}
    /\ cprompts = << >>
    /\ nextCid = 0
    /\ c2s = << >>
    /\ s2c = << >>
    /\ srvInit = "NotInitialized"
    /\ peerCaps = {}
    /\ tasks = {}
    /\ nextSid = 0
    /\ log = << >>
    /\ session = FALSE
    /\ ExplorerIdle

(***************************************************************************)
(* Resource URIs.  A URI is a sequence of tokens; the tokens are chosen so *)
(* that every text has one tokenisation at most and every literal part of  *)
(* a registered URI is a sequence of whole tokens.  "s" and "a" stand for  *)
(* text without "/".                                                       *)
(***************************************************************************)
MaxUriLen == 6
UriToks == {"fs://", "fs://chunk", "fs://sample", "/", "s", "a"}
NoSlash == {"s", "a"}
Uris == UNION {[1..n -> UriToks] : n \in 0..MaxUriLen}

UriParams == {"{file_path}", "{chunk_index}"}
SampleUri == << "fs://sample" >>
ChunkTemplate == << "fs://chunk", "/", "{file_path}", "/", "{chunk_index}" >>
ChunksTemplate == << "fs://chunk", "s", "/", "{file_path}" >>

\* An entry of the registry: its URI or URI template and its function.
Entry(kind, pattern, fn) == [kind |-> kind, pattern |-> pattern, fn |-> fn]
NoEntry == Entry("none", << >>, "")
UnknownResource == Entry("unknown", << >>, "")

\* @mcp.resource("fs://sample")
Resources(s) == << Entry("resource", SampleUri, "get_sample_resource") >>

\* Mutation: the metadata function is registered under a template of the
\* shape of the chunk template.
TemplatesSameShape(s) ==
    << Entry("template", ChunkTemplate, "get_file_chunk"),
       Entry("template",
             << "fs://chunk", "/", "{chunk_index}", "/", "{file_path}" >>,
             "read_file_chunks") >>

\* @mcp.resource("fs://chunk/{file_path}/{chunk_index}") and
\* @mcp.resource("fs://chunks/{file_path}"), in the order of registration
Templates(s) ==
    << Entry("template", ChunkTemplate, "get_file_chunk"),
       Entry("template", ChunksTemplate, "read_file_chunks") >>

\* The match of a URI against a template (mcp 1.6.0): the template is made
\* a regular expression in which each parameter is [^/]+, anchored at both
\* ends.
RECURSIVE matches(_, _)
matches(template, u) ==
    IF template = << >>
    THEN u = << >>
    ELSE IF Head(template) \in UriParams
    THEN \E k \in 1..Len(u) :
            /\ \A i \in 1..k : u[i] \in NoSlash
            /\ matches(Tail(template), SubSeq(u, k + 1, Len(u)))
    ELSE /\ u # << >>
         /\ Head(u) = Head(template)
         /\ matches(Tail(template), Tail(u))

\* The resolution of a URI (mcp 1.6.0): the resource registered under the
\* URI itself, else the first template in the order of registration that
\* matches, else "Unknown resource".
get_resource(resources, templates, u) ==
    IF \E i \in DOMAIN resources : resources[i].pattern = u
    THEN resources[CHOOSE i \in DOMAIN resources : resources[i].pattern = u]
    ELSE IF \E i \in DOMAIN templates : matches(templates[i].pattern, u)
    THEN templates[CHOOSE i \in DOMAIN templates :
                    /\ matches(templates[i].pattern, u)
                    /\ \A j \in 1..(i - 1) :
                          ~matches(templates[j].pattern, u)]
    ELSE UnknownResource

ResolveIdle ==
    /\ uri = << >>
    /\ resolved = NoEntry

(***************************************************************************)
(* SamplingSpec: the sampling callback of either controller receives one   *)
(* createMessage request.                                                  *)
(***************************************************************************)
SamplingIdle ==
    /\ payload = CreateMessageRequestParams(<< >>, 0, NoMetadata)
    /\ outcome = NoOutcome

ChunkIdle ==
    /\ file = NotAFile
    /\ meta = NoMeta
    /\ chunk = NoChunk
    /\ assembled = << >>
    /\ nextIdx = 0

SamplingInit ==
    /\ server = "basic"
    /\ client \in Clients
    /\ payload \in Payloads
    /\ outcome = NoOutcome
    /\ ChunkIdle
    /\ ResolveIdle
    /\ SessionIdle

ReceiveCreateMessage ==
    /\ ~outcome.called
    /\ outcome' = SamplingCallback(client, payload)
    /\ UNCHANGED <<server, client, payload>>
    /\ UNCHANGED <<chunkVars, resolveVars, sessionVars>>

SamplingNext == ReceiveCreateMessage

SamplingSpec == SamplingInit /\ [][SamplingNext]_vars

(***************************************************************************)
(* ChunkSpec: a controller reads the metadata resource and chunk resources *)
(* of one file that does not change.                                       *)
(***************************************************************************)
\* MCP/server.py has no size ceiling and reads a file of any size in
\* full: the file above the ceiling is given to mcp_server_explorer.py only.
ChunkInit ==
    /\ server \in Servers
    /\ client = "basic"
    /\ file \in Files
    /\ file = BigFile => server = "explorer"
    /\ meta = NoMeta
    /\ chunk = NoChunk
    /\ assembled = << >>
    /\ nextIdx = 0
    /\ SamplingIdle
    /\ ResolveIdle
    /\ SessionIdle

\* read_resource("fs://chunks/{file}"), which both controllers read before
\* any chunk of the file
ReadMeta ==
    /\ meta = NoMeta
    /\ meta' = read_file_chunks(server, file)
    /\ UNCHANGED <<server, client, file, chunk, assembled, nextIdx>>
    /\ UNCHANGED <<samplingVars, resolveVars, sessionVars>>

\* read_resource("fs://chunk/{file}/{i}") for an index of the caller's choice
ReadChunk(i) ==
    /\ meta # NoMeta
    /\ ~chunk.read
    /\ chunk' = [index |-> i, read |-> TRUE,
                 out |-> get_file_chunk(server, file, i)]
    /\ UNCHANGED <<server, client, file, meta, assembled, nextIdx>>
    /\ UNCHANGED <<samplingVars, resolveVars, sessionVars>>

\* The controller follows the metadata: it reads the chunks 0, 1, ... up to
\* total_chunks - 1 and appends each returned text.
ReadNextChunk ==
    /\ meta # NoMeta
    /\ meta.error = ""
    /\ nextIdx < meta.total_chunks
    /\ LET out == get_file_chunk(server, file, nextIdx)
       IN  /\ chunk' = [index |-> nextIdx, read |-> TRUE, out |-> out]
           /\ assembled' = assembled \o out
    /\ nextIdx' = nextIdx + 1
    /\ UNCHANGED <<server, client, file, meta>>
    /\ UNCHANGED <<samplingVars, resolveVars, sessionVars>>

ChunkNext ==
    \/ ReadMeta
    \/ \E i \in (0 - MaxNegIndex)..MaxIndex : ReadChunk(i)
    \/ ReadNextChunk

ChunkSpec == ChunkInit /\ [][ChunkNext]_vars

(***************************************************************************)
(* ResolveSpec: a provider resolves the URI of one resources/read request. *)
(***************************************************************************)
ResolveInit ==
    /\ server \in Servers
    /\ client = "basic"
    /\ uri \in Uris
    /\ resolved = NoEntry
    /\ ChunkIdle
    /\ SamplingIdle
    /\ SessionIdle

ReadResource ==
    /\ resolved = NoEntry
    /\ resolved' = get_resource(Resources(server), Templates(server), uri)
    /\ UNCHANGED <<server, client, uri>>
    /\ UNCHANGED <<chunkVars, samplingVars, sessionVars>>

ResolveNext == ReadResource

ResolveSpec == ResolveInit /\ [][ResolveNext]_vars


(***************************************************************************)
(* Spec: one session.  The controller runs its script; the provider        *)
(* serves it.  Each side sends on a FIFO channel and its receive loop      *)
(* takes the messages of the other side in order.                          *)
(***************************************************************************)
Init ==
    /\ server \in Servers
    /\ client \in Clients
    /\ clientCaps \in SUBSET Caps
    /\ serverVersion \in ServerVersions
    /\ cpc = "start"
    /\ cstep = 1
    /\ cwait = -1
    /\ cresp = NoMsg
    /\ cloop = IF ReceiveLoopStarted(client) THEN "running" ELSE "off"
    /\ ctools = {}
    /\ cprompts = << >>
    /\ nextCid = 0
    /\ c2s = << >>
    /\ s2c = << >>
    /\ srvInit = "NotInitialized"
    /\ peerCaps = {}
    /\ tasks = {}
    /\ nextSid = 0
    /\ log = << >>
    /\ ChunkIdle
    /\ SamplingIdle
    /\ ResolveIdle
    /\ session = FALSE
    /\ ExplorerIdle

staticVars == <<server, client, clientCaps, serverVersion, chunkVars,
                samplingVars, resolveVars, explorerVars>>
fixedVars == <<staticVars, session>>

AfterStep(c, n) == IF n > Len(Script(c)) THEN "done" ELSE "run"

\* The controller sends the initialize request and awaits its response.
SendInitialize ==
    /\ cpc = "start"
    /\ LET m == [Request(nextCid, "initialize", "", "")
                    EXCEPT !.version = LATEST_PROTOCOL_VERSION,
                           !.caps = clientCaps]
       IN  /\ c2s' = Append(c2s, m)
           /\ log' = Append(log, Event("c", "send", m, "", -1))
    /\ cpc' = "initializing"
    /\ cwait' = nextCid
    /\ nextCid' = nextCid + 1
    /\ UNCHANGED <<cstep, cresp, cloop, ctools, cprompts, s2c>>
    /\ UNCHANGED <<srvInit, peerCaps, tasks, nextSid, fixedVars>>

\* The controller's receive loop takes a response: it hands it to the main
\* task when it carries the id the task awaits and drops it otherwise.
ControllerReceiveResponse ==
    /\ cloop = "running"
    /\ s2c # << >>
    /\ Head(s2c).kind = "response"
    /\ LET m == Head(s2c)
       IN  IF m.id = cwait
           THEN /\ cresp' = m
                /\ cwait' = -1
                /\ log' = Append(log, Event("c", "recv", m, "", -1))
           ELSE UNCHANGED <<cresp, cwait, log>>
    /\ s2c' = Tail(s2c)
    /\ UNCHANGED <<cpc, cstep, cloop, ctools, cprompts, nextCid, c2s>>
    /\ UNCHANGED <<srvInit, peerCaps, tasks, nextSid, fixedVars>>

\* The reply of the controller to a request of the provider, NoMsg when the
\* callback raises.
ControllerReply(c, m) ==
    CASE m.method = "sampling/createMessage" ->
            LET out == SamplingCallback(c, m.params)
            IN  IF out.exc = ""
                THEN [Response(m, TRUE, << >>) EXCEPT !.result = out.result]
                ELSE NoMsg
      [] m.method = "roots/list" ->
            [Response(m, TRUE, << >>) EXCEPT !.roots = list_roots_callback(c)]
      [] m.method = "ping" -> Response(m, TRUE, << >>)
      [] OTHER -> Response(m, FALSE, << << "Method not found" >> >>)

\* The controller's receive loop takes a request of the provider and runs
\* the callback registered for it, also while the main task awaits a
\* response.  An exception of the callback leaves the receive loop.
ControllerReceiveRequest ==
    /\ cloop = "running"
    /\ s2c # << >>
    /\ Head(s2c).kind = "request"
    /\ LET m == Head(s2c)
           r == ControllerReply(client, m)
       IN  IF r = NoMsg
           THEN /\ cloop' = "crashed"
                /\ log' = Append(log, Event("c", "recv", m, "", -1))
                /\ UNCHANGED c2s
           ELSE /\ c2s' = Append(c2s, r)
                /\ log' = log \o << Event("c", "recv", m, "", -1),
                                    Event("c", "send", r, "", -1) >>
                /\ UNCHANGED cloop
    /\ s2c' = Tail(s2c)
    /\ UNCHANGED <<cpc, cstep, cwait, cresp, ctools, cprompts, nextCid>>
    /\ UNCHANGED <<srvInit, peerCaps, tasks, nextSid, fixedVars>>

\* The main task has the initialize response: it raises on an unsupported
\* version and sends the initialized notification otherwise.
FinishInitialize ==
    /\ cpc = "initializing"
    /\ cresp # NoMsg
    /\ IF cresp.ok /\ VersionSupported(cresp.version)
       THEN LET m == Notification("notifications/initialized")
            IN  /\ c2s' = Append(c2s, m)
                /\ log' = Append(log, Event("c", "send", m, "", -1))
                /\ cpc' = AfterStep(client, cstep)
                /\ session' = TRUE
       ELSE /\ cpc' = "raised"
            /\ UNCHANGED <<c2s, log, session>>
    /\ cresp' = NoMsg
    /\ UNCHANGED <<cstep, cwait, cloop, ctools, cprompts, nextCid, s2c>>
    /\ UNCHANGED <<srvInit, peerCaps, tasks, nextSid, staticVars>>

\* A step is skipped when its tool is not in the list the controller
\* obtained, or when it asks for the first prompt of an empty list.
StepSkipped(st) ==
    \/ st.guard # "" /\ st.guard \notin ctools
    \/ st.name = "prompts[0]" /\ cprompts = << >>
StepName(st) == IF st.name = "prompts[0]" THEN cprompts[1] ELSE st.name

\* The main task takes the next step of its script.
SendStep ==
    /\ cpc = "run"
    /\ cwait = -1
    /\ cresp = NoMsg
    /\ LET st == Script(client)[cstep]
       IN  IF StepSkipped(st)
           THEN /\ cstep' = cstep + 1
                /\ cpc' = AfterStep(client, cstep + 1)
                /\ UNCHANGED <<cwait, nextCid, c2s, log>>
           ELSE IF st.method = "notifications/progress"
           THEN LET m == [Notification(st.method)
                             EXCEPT !.name = st.name, !.progress = << 7, 10 >>,
                                    !.total = << 1, 1 >>]
                IN  /\ c2s' = Append(c2s, m)
                    /\ log' = Append(log, Event("c", "send", m, "", -1))
                    /\ cstep' = cstep + 1
                    /\ cpc' = AfterStep(client, cstep + 1)
                    /\ UNCHANGED <<cwait, nextCid>>
           ELSE LET m == Request(nextCid, st.method, StepName(st), st.arg)
                IN  /\ c2s' = Append(c2s, m)
                    /\ log' = Append(log, Event("c", "send", m, "", -1))
                    /\ cwait' = nextCid
                    /\ nextCid' = nextCid + 1
                    /\ UNCHANGED <<cstep, cpc>>
    /\ UNCHANGED <<cresp, cloop, ctools, cprompts, s2c>>
    /\ UNCHANGED <<srvInit, peerCaps, tasks, nextSid, fixedVars>>

\* The main task has the response to the request of its step.  An error
\* response raises: out of the script, or into the except clause around the
\* step.
CompleteStep ==
    /\ cpc = "run"
    /\ cresp # NoMsg
    /\ LET st == Script(client)[cstep]
           n == IF cresp.ok THEN cstep + 1 ELSE cstep + st.catch
       IN  /\ IF ~cresp.ok /\ st.catch = 0
              THEN cpc' = "raised" /\ cstep' = cstep
              ELSE cpc' = AfterStep(client, n) /\ cstep' = n
           /\ ctools' = IF cresp.ok /\ st.method = "tools/list"
                        THEN {cresp.content[i][1] : i \in DOMAIN cresp.content}
                        ELSE ctools
           /\ cprompts' = IF cresp.ok /\ st.method = "prompts/list"
                          THEN [i \in DOMAIN cresp.content |->
                                    cresp.content[i][1]]
                          ELSE cprompts
    /\ cresp' = NoMsg
    /\ UNCHANGED <<cwait, cloop, nextCid, c2s, s2c, log>>
    /\ UNCHANGED <<srvInit, peerCaps, tasks, nextSid, fixedVars>>

ProviderTakes(kind) ==
    /\ srvInit # "Closed"
    /\ c2s # << >>
    /\ Head(c2s).kind = kind

\* Mutation: the provider dispatches requests whatever the handshake state.
NotReadyNever(state) == FALSE

\* The provider session (mcp 1.6.0, pinned by the providers) raises
\* "Received request before initialization was complete" on every request
\* but initialize that it takes before the initialized notification.
NotReady(state) == state # "Initialized"

\* The provider answers the initialize request with its protocol version
\* and records the capabilities of its peer.
ProviderInitialize ==
    /\ ProviderTakes("request")
    /\ Head(c2s).method = "initialize"
    /\ LET m == Head(c2s)
           r == [Response(m, TRUE, << >>) EXCEPT !.version = serverVersion]
       IN  /\ peerCaps' = m.caps
           /\ s2c' = Append(s2c, r)
           /\ log' = log \o << Event("s", "recv", m, "", -1),
                               Event("s", "send", r, "", -1) >>
    /\ srvInit' = "Initializing"
    /\ c2s' = Tail(c2s)
    /\ UNCHANGED <<tasks, nextSid, fixedVars>>
    /\ UNCHANGED <<cpc, cstep, cwait, cresp, cloop, ctools, cprompts, nextCid>>

\* The provider takes a notification: initialized completes the handshake.
ProviderNotification ==
    /\ ProviderTakes("notification")
    /\ LET m == Head(c2s)
       IN  /\ srvInit' = IF m.method = "notifications/initialized"
                         THEN "Initialized" ELSE srvInit
           /\ log' = Append(log, Event("s", "recv", m, "", -1))
    /\ c2s' = Tail(c2s)
    /\ UNCHANGED <<s2c, peerCaps, tasks, nextSid, fixedVars>>
    /\ UNCHANGED <<cpc, cstep, cwait, cresp, cloop, ctools, cprompts, nextCid>>

\* The provider takes a request that no tool serves.  A request that
\* arrives before the handshake is complete raises in the provider session.
ProviderServe ==
    /\ ProviderTakes("request")
    /\ Head(c2s).method \notin {"initialize", "tools/call"}
    /\ LET m == Head(c2s)
           r == ServerResult(server, m)
       IN  IF NotReady(srvInit)
           THEN /\ srvInit' = "Closed"
                /\ log' = Append(log, Event("s", "recv", m, "", -1))
                /\ UNCHANGED s2c
           ELSE /\ s2c' = Append(s2c, r)
                /\ log' = log \o << Event("s", "recv", m, "", -1),
                                    Event("s", "send", r, "", -1) >>
                /\ UNCHANGED srvInit
    /\ c2s' = Tail(c2s)
    /\ UNCHANGED <<peerCaps, tasks, nextSid, fixedVars>>
    /\ UNCHANGED <<cpc, cstep, cwait, cresp, cloop, ctools, cprompts, nextCid>>

\* What a handler that serves req does with r, the outcome of ToolStart or
\* ToolResume: it sends its result, or it sends a request to the controller
\* and is suspended until the response.
HandlerActs(req, r, others, before) ==
    IF r.act = "respond"
    THEN LET m == [Response(req, TRUE, r.content)
                      EXCEPT !.isError = r.isError]
         IN  /\ s2c' = Append(s2c, m)
             /\ log' = log \o before
                           \o << Event("s", "send", m, req.name, req.id) >>
             /\ tasks' = others
             /\ UNCHANGED nextSid
    ELSE LET m == [Request(nextSid, r.method, "", "")
                      EXCEPT !.params = r.params]
         IN  /\ s2c' = Append(s2c, m)
             /\ log' = log \o before
                           \o << Event("s", "send", m, req.name, req.id) >>
             /\ tasks' = others \cup {Task(req, r.stage, nextSid, r.roots)}
             /\ nextSid' = nextSid + 1

\* The provider takes a tools/call request and runs the tool handler up to
\* its return or its first await.
ProviderCallTool ==
    /\ ProviderTakes("request")
    /\ Head(c2s).method = "tools/call"
    /\ LET m == Head(c2s)
       IN  IF NotReady(srvInit)
           THEN /\ srvInit' = "Closed"
                /\ log' = Append(log, Event("s", "recv", m, "", -1))
                /\ UNCHANGED <<s2c, tasks, nextSid>>
           ELSE /\ HandlerActs(m, ToolStart(server, peerCaps, m), tasks,
                               << Event("s", "recv", m, m.name, m.id) >>)
                /\ UNCHANGED srvInit
    /\ c2s' = Tail(c2s)
    /\ UNCHANGED <<peerCaps, fixedVars>>
    /\ UNCHANGED <<cpc, cstep, cwait, cresp, cloop, ctools, cprompts, nextCid>>

\* The provider takes a response: it goes to the handler that awaits its
\* id and is dropped when there is none.
ProviderReceiveResponse ==
    /\ ProviderTakes("response")
    /\ LET m == Head(c2s)
       IN  IF \E t \in tasks : Awaits(t, m)
           THEN LET t == CHOOSE t \in tasks : Awaits(t, m)
                IN  /\ tasks' = (tasks \ {t}) \cup {[t EXCEPT !.reply = m]}
                    /\ log' = Append(log,
                                Event("s", "recv", m, t.tool, t.req.id))
           ELSE UNCHANGED <<tasks, log>>
    /\ c2s' = Tail(c2s)
    /\ UNCHANGED <<s2c, srvInit, peerCaps, nextSid, fixedVars>>
    /\ UNCHANGED <<cpc, cstep, cwait, cresp, cloop, ctools, cprompts, nextCid>>

\* A suspended handler whose await returned runs to its return or to its
\* next await.
HandlerContinue ==
    /\ srvInit # "Closed"
    /\ \E t \in tasks :
        /\ AwaitDone(t)
        /\ HandlerActs(t.req, ToolResume(server, t), tasks \ {t}, << >>)
    /\ UNCHANGED <<c2s, srvInit, peerCaps, fixedVars>>
    /\ UNCHANGED <<cpc, cstep, cwait, cresp, cloop, ctools, cprompts, nextCid>>

Next ==
    \/ SendInitialize
    \/ ControllerReceiveResponse
    \/ ControllerReceiveRequest
    \/ FinishInitialize
    \/ SendStep
    \/ CompleteStep
    \/ ProviderInitialize
    \/ ProviderNotification
    \/ ProviderServe
    \/ ProviderCallTool
    \/ ProviderReceiveResponse
    \/ HandlerContinue

Spec == Init /\ [][Next]_vars

\* The event loops of both peers run every task that is ready, and the
\* channel delivers every message.
Fairness ==
    /\ WF_vars(SendInitialize)
    /\ WF_vars(ControllerReceiveResponse)
    /\ WF_vars(ControllerReceiveRequest)
    /\ WF_vars(FinishInitialize)
    /\ WF_vars(SendStep)
    /\ WF_vars(CompleteStep)
    /\ WF_vars(ProviderInitialize)
    /\ WF_vars(ProviderNotification)
    /\ WF_vars(ProviderServe)
    /\ WF_vars(ProviderCallTool)
    /\ WF_vars(ProviderReceiveResponse)
    /\ WF_vars(HandlerContinue)

FairSpec == Spec /\ Fairness

(***************************************************************************)
(* PeerSpec: the provider serves a peer that is free to send any message   *)
(* of a small menu at any time, the handshake messages included.           *)
(***************************************************************************)
MaxPeerMessages == 2  \* messages the peer sends after the Init state

PeerMenu ==
    {Request(0, "initialize", "", ""),
     Notification("notifications/initialized"),
     Request(0, "ping", "", ""),
     Request(0, "tools/call", "list_directory", "."),
     Request(0, "tools/call", "list_directory", "missing"),
     Request(0, "tools/call", "list_directory", "locked"),
     Request(0, "tools/call", "check_sampling_capability", "Hi Model!"),
     Request(0, "resources/subscribe", "fs://sample", ""),
     Request(0, "resources/unsubscribe", "fs://sample", ""),
     Request(0, "resources/read", "fs://chunks/missing", "")}

\* The history of a completed handshake.
HandshakeLog(caps) ==
    LET req == [Request(0, "initialize", "", "")
                    EXCEPT !.version = LATEST_PROTOCOL_VERSION, !.caps = caps]
        res == [Response(req, TRUE, << >>)
                    EXCEPT !.version = LATEST_PROTOCOL_VERSION]
        ack == Notification("notifications/initialized")
    IN  << Event("c", "send", req, "", -1), Event("s", "recv", req, "", -1),
           Event("s", "send", res, "", -1), Event("c", "recv", res, "", -1),
           Event("c", "send", ack, "", -1), Event("s", "recv", ack, "", -1) >>

\* The session is new, or it has completed the handshake.
PeerInit ==
    /\ server \in Servers
    /\ client = "basic"
    /\ clientCaps = Caps
    /\ serverVersion = LATEST_PROTOCOL_VERSION
    /\ cpc = "peer"
    /\ cstep = 1
    /\ cwait = -1
    /\ cresp = NoMsg
    /\ cloop = "running"
    /\ ctools = {}
    /\ cprompts = << >>
    /\ c2s = << >>
    /\ s2c = << >>
    /\ tasks = {}
    /\ nextSid = 0
    /\ \/ /\ srvInit = "NotInitialized"
          /\ peerCaps = {}
          /\ nextCid = 0
          /\ log = << >>
       \/ /\ srvInit = "Initialized"
          /\ peerCaps = clientCaps
          /\ nextCid = 1
          /\ log = HandshakeLog(clientCaps)
    /\ ChunkIdle
    /\ SamplingIdle
    /\ ResolveIdle
    /\ session = FALSE
    /\ ExplorerIdle

\* The peer sends a message of the menu when no message is in flight; a
\* request gets the next id.  cstep counts the messages of the peer.
PeerSend ==
    /\ cpc = "peer"
    /\ cstep <= MaxPeerMessages
    /\ c2s = << >>
    /\ s2c = << >>
    /\ \E t \in PeerMenu :
        LET m == IF t.kind = "request"
                 THEN [t EXCEPT !.id = nextCid,
                                !.version = IF t.method = "initialize"
                                            THEN LATEST_PROTOCOL_VERSION
                                            ELSE "",
                                !.caps = IF t.method = "initialize"
                                         THEN clientCaps ELSE {}]
                 ELSE t
        IN  /\ c2s' = Append(c2s, m)
            /\ log' = Append(log, Event("c", "send", m, "", -1))
            /\ nextCid' = IF t.kind = "request" THEN nextCid + 1 ELSE nextCid
    /\ cstep' = cstep + 1
    /\ UNCHANGED <<cpc, cwait, cresp, cloop, ctools, cprompts, s2c>>
    /\ UNCHANGED <<srvInit, peerCaps, tasks, nextSid, fixedVars>>

\* The peer takes a response of the provider.
PeerReceive ==
    /\ cpc = "peer"
    /\ s2c # << >>
    /\ Head(s2c).kind = "response"
    /\ log' = Append(log, Event("c", "recv", Head(s2c), "", -1))
    /\ s2c' = Tail(s2c)
    /\ UNCHANGED <<cpc, cstep, cwait, cresp, cloop, ctools, cprompts, nextCid>>
    /\ UNCHANGED <<c2s, srvInit, peerCaps, tasks, nextSid, fixedVars>>

\* The peer takes a request of the provider: it answers it as the callbacks
\* of MCP/client.py do, or it rejects it with an error response.
PeerReply ==
    /\ cpc = "peer"
    /\ s2c # << >>
    /\ Head(s2c).kind = "request"
    /\ LET m == Head(s2c)
       IN  \E r \in {ControllerReply(client, m),
                     Response(m, FALSE, << << "Request rejected" >> >>)} :
            /\ r # NoMsg
            /\ c2s' = Append(c2s, r)
            /\ log' = log \o << Event("c", "recv", m, "", -1),
                                Event("c", "send", r, "", -1) >>
    /\ s2c' = Tail(s2c)
    /\ UNCHANGED <<cpc, cstep, cwait, cresp, cloop, ctools, cprompts, nextCid>>
    /\ UNCHANGED <<srvInit, peerCaps, tasks, nextSid, fixedVars>>

PeerNext ==
    \/ PeerSend
    \/ PeerReceive
    \/ PeerReply
    \/ ProviderInitialize
    \/ ProviderNotification
    \/ ProviderServe
    \/ ProviderCallTool
    \/ ProviderReceiveResponse
    \/ HandlerContinue

PeerSpec == PeerInit /\ [][PeerNext]_vars

(***************************************************************************)
(* ExplorerSpec: one method of EnhancedMCPClient (mcp_client_explorer.py)  *)
(* runs on a client whose session field is None or holds a session that    *)
(* its caller entered and initialized, against either provider.  A         *)
(* request can fail: the awaiting call then raises in the method.          *)
(***************************************************************************)
Methods == {"discover_server_capabilities", "test_client_capabilities",
            "explore_filesystem", "send_progress_updates"}

MethodScript(m) ==
    CASE m = "discover_server_capabilities" -> DiscoverScript
      [] m = "test_client_capabilities" -> TestScript
      [] m = "explore_filesystem" -> ExploreScript
      [] OTHER -> ProgressScript

\* The key of results under which test_client_capabilities records a tool.
CapabilityKey(tool) ==
    CASE tool = "check_sampling_capability" -> "sampling"
      [] tool = "check_roots_capability" -> "roots"
      [] OTHER -> "experimental_tools"

\* The texts that test_client_capabilities looks for in content[0].text;
\* its source writes the check mark as the one character U+2705.
ClientCheckMark == "<U+2705>"
SuccessMarker(tool) ==
    IF tool = "check_roots_capability"
    THEN << ClientCheckMark, " Roots capability supported" >>
    ELSE << ClientCheckMark, " Supported" >>

\* "marker in text"
Contains(text, marker) ==
    \E i \in 1..(Len(text) - Len(marker) + 1) :
        SubSeq(text, i, i + Len(marker) - 1) = marker

\* "progress = (i + 1) / 5" for the i of range(5), as a fraction
Progress(i) == << i + 1, ProgressSteps >>

\* The lists a client holds from an earlier discovery against a provider,
\* and the empty lists of a client that discovered nothing.
CachedFrom(origin) ==
    IF origin = "none"
    THEN [prompts |-> << >>, tools |-> {}, templates |-> << >>,
          resources |-> << >>]
    ELSE [prompts |-> PromptNames(origin), tools |-> Names(ToolNames(origin)),
          templates |-> TemplateUris, resources |-> ResourceUris]

ExplorerInit ==
    /\ server \in Servers
    /\ client = "explorer"
    /\ clientCaps \in SUBSET Caps
    /\ serverVersion = LATEST_PROTOCOL_VERSION
    /\ cmethod \in Methods
    /\ session \in BOOLEAN
    /\ cpc = "run"
    /\ cstep = 1
    /\ cwait = -1
    /\ cresp = NoMsg
    /\ \E origin \in {"none"} \cup Servers :
          /\ cprompts = CachedFrom(origin).prompts
          /\ ctools = CachedFrom(origin).tools
          /\ ctemplates = CachedFrom(origin).templates
          /\ cresources = CachedFrom(origin).resources
    /\ results = NoResults
    /\ client_capabilities = [k \in CapabilityKeys |-> "False"]
    /\ c2s = << >>
    /\ s2c = << >>
    /\ tasks = {}
    /\ nextSid = 0
    /\ IF session
       THEN /\ cloop = "running"
            /\ srvInit = "Initialized"
            /\ peerCaps = clientCaps
            /\ nextCid = 1
            /\ log = HandshakeLog(clientCaps)
       ELSE /\ cloop = "off"
            /\ srvInit = "NotInitialized"
            /\ peerCaps = {}
            /\ nextCid = 0
            /\ log = << >>
    /\ ChunkIdle
    /\ SamplingIdle
    /\ ResolveIdle

\* results[key] = value
Record(res, tool, value) == [res EXCEPT ![CapabilityKey(tool)] = value]

\* The method goes on at step n with the results res; past its last step
\* it returns, and test_client_capabilities stores its results before.
Advance(n, res) ==
    /\ cstep' = n
    /\ cpc' = IF n > Len(MethodScript(cmethod)) THEN "done" ELSE "run"
    /\ results' = res
    /\ client_capabilities' =
          IF cmethod = "test_client_capabilities"
             /\ n > Len(MethodScript(cmethod))
          THEN res
          ELSE client_capabilities

\* The method takes its next step.  discover_server_capabilities raises
\* when there is no session; a tool that is not in capabilities.tools is
\* not called; a call on the None session raises AttributeError into the
\* except clause around it; sending a notification may fail.
MethodStep ==
    /\ cpc = "run"
    /\ cwait = -1
    /\ cresp = NoMsg
    /\ LET st == MethodScript(cmethod)[cstep]
           failed == IF cmethod = "test_client_capabilities"
                     THEN Record(results, st.name, "False")
                     ELSE results
       IN  IF cmethod = "discover_server_capabilities" /\ ~session
           THEN /\ cpc' = "raised"
                /\ UNCHANGED <<cstep, results, client_capabilities>>
                /\ UNCHANGED <<cwait, nextCid, c2s, log>>
           ELSE IF st.guard # "" /\ st.guard \notin ctools
           THEN /\ Advance(cstep + 1, failed)
                /\ UNCHANGED <<cwait, nextCid, c2s, log>>
           ELSE IF ~session
           THEN /\ Advance(cstep + st.catch, failed)
                /\ UNCHANGED <<cwait, nextCid, c2s, log>>
           ELSE IF st.method = "notifications/progress"
           THEN /\ \E sent \in BOOLEAN :
                    IF sent
                    THEN LET m == [Notification(st.method)
                                      EXCEPT !.name = st.name,
                                             !.progress = Progress(cstep - 1),
                                             !.total = << 1, 1 >>]
                         IN  /\ c2s' = Append(c2s, m)
                             /\ log' = Append(log,
                                          Event("c", "send", m, "", -1))
                             /\ Advance(cstep + 1, results)
                    ELSE /\ Advance(cstep + st.catch, results)
                         /\ UNCHANGED <<c2s, log>>
                /\ UNCHANGED <<cwait, nextCid>>
           ELSE LET m == Request(nextCid, st.method, st.name, st.arg)
                IN  /\ c2s' = Append(c2s, m)
                    /\ log' = Append(log, Event("c", "send", m, "", -1))
                    /\ cwait' = nextCid
                    /\ nextCid' = nextCid + 1
                    /\ UNCHANGED <<cstep, cpc, results, client_capabilities>>
    /\ UNCHANGED <<cresp, cloop, ctools, cprompts, ctemplates, cresources>>
    /\ UNCHANGED <<s2c, session, cmethod>>
    /\ UNCHANGED <<srvInit, peerCaps, tasks, nextSid>>
    /\ UNCHANGED <<server, client, clientCaps, serverVersion, chunkVars,
                   samplingVars, resolveVars>>

\* The method has the response to the request of its step: a list is
\* stored in its cache, the text of a capability tool is searched for the
\* success marker, and an error response raises into the except clause
\* around the step.
MethodComplete ==
    /\ cpc = "run"
    /\ cresp # NoMsg
    /\ LET st == MethodScript(cmethod)[cstep]
           names == [i \in DOMAIN cresp.content |-> cresp.content[i][1]]
           success == /\ cresp.ok
                      /\ cresp.content # << >>
                      /\ Contains(cresp.content[1], SuccessMarker(st.name))
           n == IF cresp.ok THEN cstep + 1 ELSE cstep + st.catch
       IN  /\ Advance(n, IF cmethod = "test_client_capabilities"
                         THEN Record(results, st.name,
                                     IF success THEN "True" ELSE "False")
                         ELSE results)
           /\ cprompts' = IF cresp.ok /\ st.method = "prompts/list"
                          THEN names ELSE cprompts
           /\ ctools' = IF cresp.ok /\ st.method = "tools/list"
                        THEN Names(names) ELSE ctools
           /\ ctemplates' = IF cresp.ok
                               /\ st.method = "resources/templates/list"
                            THEN names ELSE ctemplates
           /\ cresources' = IF cresp.ok /\ st.method = "resources/list"
                            THEN names ELSE cresources
    /\ cresp' = NoMsg
    /\ UNCHANGED <<cwait, cloop, nextCid, c2s, s2c, log, session, cmethod>>
    /\ UNCHANGED <<srvInit, peerCaps, tasks, nextSid>>
    /\ UNCHANGED <<server, client, clientCaps, serverVersion, chunkVars,
                   samplingVars, resolveVars>>

\* A request fails: the provider answers it with an error and runs no
\* handler for it.
RequestFails ==
    /\ ProviderTakes("request")
    /\ srvInit = "Initialized"
    /\ LET m == Head(c2s)
           r == Response(m, FALSE, << << "Internal error" >> >>)
       IN  /\ s2c' = Append(s2c, r)
           /\ log' = log \o << Event("s", "recv", m, "", -1),
                               Event("s", "send", r, "", -1) >>
    /\ c2s' = Tail(c2s)
    /\ UNCHANGED <<srvInit, peerCaps, tasks, nextSid, fixedVars>>
    /\ UNCHANGED <<cpc, cstep, cwait, cresp, cloop, ctools, cprompts, nextCid>>

ExplorerNext ==
    \/ MethodStep
    \/ MethodComplete
    \/ RequestFails
    \/ ControllerReceiveResponse
    \/ ControllerReceiveRequest
    \/ ProviderNotification
    \/ ProviderServe
    \/ ProviderCallTool
    \/ ProviderReceiveResponse
    \/ HandlerContinue

ExplorerSpec == ExplorerInit /\ [][ExplorerNext]_vars


(***************************************************************************)
(* Properties of the chunked resource engine (ChunkSpec)                   *)
(***************************************************************************)
\* ceil(a / b), by its definition: the least q with q * b >= a.
CeilDiv(a, b) == CHOOSE q \in 0..a : q * b >= a /\ (q = 0 \/ (q - 1) * b < a)
\* The total chunk count the specification prescribes for n characters.
TotalChunks(n) == Max(1, CeilDiv(n, CHUNK_SIZE))

MetaRead == meta # NoMeta

\* C1: for every readable file of text length L the metadata resource
\* reports total_chunks = ceil(L / CHUNK_SIZE), and 1 rather than 0 when
\* L = 0.
C1_TotalChunks ==
    (MetaRead /\ Readable(file)) =>
        /\ meta.error = ""
        /\ meta.chunk_size = 1024
        /\ meta.total_chunks = IF file.len = 0 THEN 1
                               ELSE CeilDiv(file.len, CHUNK_SIZE)

\* C2: round trip: once the chunks 0 .. total_chunks - 1 of a readable file
\* have been read in index order, the concatenation of the texts returned is
\* the text of the file.
C2_RoundTrip ==
    (MetaRead /\ Readable(file) /\ meta.error = ""
        /\ nextIdx = meta.total_chunks)
    => assembled = read_text(file)

\* C3: reading a chunk at an index >= totalChunks yields the out-of-range
\* error, never a successful result with an empty text.
C3_OutOfRange ==
    (Readable(file) /\ chunk.read /\ chunk.index >= TotalChunks(file.len))
    => /\ IsErrorText(chunk.out)
       /\ FmtTok(chunk.out[1]) = "Error: Chunk does not exist"

\* The chunk read was rejected as out of range.
RejectedOutOfRange ==
    /\ chunk.read
    /\ IsErrorText(chunk.out)
    /\ FmtTok(chunk.out[1]) = "Error: Chunk does not exist"

\* C14: an out-of-range error names, as the number of chunks of the file,
\* the total_chunks that the metadata resource reports for the same file,
\* whatever the length of the text, 0 included.
C14_ErrorTotalChunks ==
    (MetaRead /\ Readable(file) /\ meta.error = "" /\ RejectedOutOfRange)
    => /\ Len(chunk.out) = 2
       /\ FmtTok(chunk.out[2]) = "File has chunks"
       /\ FmtNum(chunk.out[2]) = meta.total_chunks

\* C15: for a text of length L >= 1 the chunk at an index i below
\* totalChunks is the slice [i * 1024, min(L, (i + 1) * 1024)) of the text:
\* 1024 characters when it is not the last chunk and
\* L - 1024 * (totalChunks - 1) when it is; an index at or above totalChunks
\* is rejected as out of range (L = 2500: totalChunks = 3, chunk 2 has 452
\* characters, index 3 is rejected).
C15_SliceLengths ==
    (Readable(file) /\ file.len >= 1 /\ chunk.read /\ chunk.index >= 0) =>
        LET L == file.len
            T == TotalChunks(L)
            i == chunk.index
        IN  IF i < T
            THEN /\ chunk.out = SubSeq(read_text(file), i * 1024 + 1,
                                       Min(L, (i + 1) * 1024))
                 /\ Len(chunk.out) = IF i < T - 1 THEN 1024
                                     ELSE L - 1024 * (T - 1)
            ELSE RejectedOutOfRange

\* C16: a chunk read at a negative index is rejected with an error; it
\* returns neither an empty text nor a slice counted from the end of the
\* text.
C16_NegativeIndex ==
    (Readable(file) /\ chunk.read /\ chunk.index < 0)
    => IsErrorText(chunk.out)

\* The categories of files that provider s does not support.  The allowed
\* suffixes and the size ceiling are configuration of
\* mcp_server_explorer.py; MCP/server.py defines neither.
UnsupportedCategory(s, f) ==
    \/ f.kind # "file"
    \/ s = "explorer" /\ f.ext \notin ALLOWED_EXTENSIONS
    \/ s = "explorer" /\ f.size > MAX_FILE_SIZE

\* C17: for a file of an unsupported category (a suffix outside the allowed
\* set, a size above the 10 MB ceiling, or not a regular file) the metadata
\* resource returns an error outcome with a reason, and nothing else: no
\* length, no total_chunks, no chunk URIs.
C17_UnsupportedCategory ==
    (MetaRead /\ UnsupportedCategory(server, file)) =>
        /\ meta.error \in {"not a valid file", "File type not supported",
                           "File too large"}
        /\ meta = MetaError(meta.error)
        /\ meta.chunks = << >>

\* Witness of C17: the metadata of a file above the ceiling was refused.
C17_Witness ==
    /\ MetaRead
    /\ file.kind = "file"
    /\ file.size > MAX_FILE_SIZE
    /\ meta.error = "File too large"

\* A second case of C17: the suffix of the file is not allowed.
C17_WitnessType ==
    /\ MetaRead
    /\ file.kind = "file"
    /\ file.ext \notin ALLOWED_EXTENSIONS
    /\ meta.error = "File type not supported"

\* C18: a successful metadata read returns the length of the text, the
\* chunk size and total_chunks, and a list of chunk URIs with exactly
\* total_chunks entries, entry k (from 0) being fs://chunk/{file}/k: the
\* indices increase by one, without gap or duplicate.
C18_ChunkUris ==
    (MetaRead /\ meta.error = "") =>
        /\ meta.length = file.len
        /\ meta.chunk_size = 1024
        /\ Len(meta.chunks) = meta.total_chunks
        /\ \A k \in 0..(meta.total_chunks - 1) :
                meta.chunks[k + 1] = [file |-> file, index |-> k]

\* Witness of C18: the metadata of a text of three chunks was read.
C18_Witness ==
    /\ MetaRead
    /\ meta.error = ""
    /\ meta.total_chunks = 3
    /\ Len(meta.chunks) = 3

(***************************************************************************)
(* Properties of the session (Spec, FairSpec)                              *)
(***************************************************************************)
Sent(e, side, kind) == e.side = side /\ e.ev = "send" /\ e.msg.kind = kind
Received(e, side, kind) == e.side = side /\ e.ev = "recv" /\ e.msg.kind = kind

\* C4: check_sampling_capability answers with the capability error and sends
\* no createMessage request when the controller did not advertise sampling;
\* when the controller advertised it, the handler sends the createMessage
\* request before it answers.
C4_SamplingGate ==
    \A i \in DOMAIN log :
        (log[i].side = "s" /\ log[i].ev = "send"
            /\ log[i].tool = "check_sampling_capability")
        => IF "sampling" \in clientCaps
           THEN log[i].msg.kind = "response" =>
                    \E j \in 1..(i - 1) :
                        /\ Sent(log[j], "s", "request")
                        /\ log[j].msg.method = "sampling/createMessage"
                        /\ log[j].call = log[i].call
           ELSE /\ log[i].msg.kind = "response"
                /\ log[i].msg.content = << SamplingUnsupported(server) >>

\* Witness of C4: the tool has answered a controller without sampling.
C4_Witness ==
    /\ "sampling" \notin clientCaps
    /\ \E i \in DOMAIN log :
        /\ Sent(log[i], "s", "response")
        /\ log[i].tool = "check_sampling_capability"

\* C5: the provider sends a roots/list request only to a controller that
\* advertised roots, and a createMessage request only to a controller that
\* advertised sampling, whichever tool sends it.
C5_RequestsGated ==
    \A i \in DOMAIN log :
        Sent(log[i], "s", "request") =>
            /\ log[i].msg.method = "roots/list" => "roots" \in clientCaps
            /\ log[i].msg.method = "sampling/createMessage" =>
                    "sampling" \in clientCaps

\* C6: a request that a tool handler sends to the controller comes after the
\* tools/call request it serves, and the tools/call response is sent only
\* after the controller has sent its reply and the handler has received it.
C6_NestedOrder ==
    \A j \in DOMAIN log :
        Sent(log[j], "s", "request") =>
            /\ \E h \in 1..(j - 1) :
                /\ Sent(log[h], "c", "request")
                /\ log[h].msg.method = "tools/call"
                /\ log[h].msg.id = log[j].call
            /\ \A i \in DOMAIN log :
                (Sent(log[i], "s", "response") /\ log[i].call = log[j].call)
                => \E k \in (j + 1)..(i - 1) :
                    /\ Sent(log[k], "c", "response")
                    /\ log[k].msg.id = log[j].msg.id
                    /\ \E r \in (k + 1)..(i - 1) :
                        /\ Received(log[r], "s", "response")
                        /\ log[r].msg = log[k].msg

\* Witness of C6: a tools/call response was sent by a handler that had sent
\* a request to the controller.
C6_Witness ==
    \E j \in DOMAIN log : \E i \in DOMAIN log :
        /\ Sent(log[j], "s", "request")
        /\ Sent(log[i], "s", "response")
        /\ log[i].call = log[j].call

CallSent(tool) ==
    \E i \in DOMAIN log :
        /\ Sent(log[i], "c", "request")
        /\ log[i].msg.method = "tools/call"
        /\ log[i].msg.name = tool
CallAnswered(tool) ==
    \E i \in DOMAIN log :
        /\ Received(log[i], "c", "response")
        /\ log[i].msg.method = "tools/call"
        /\ log[i].msg.name = tool

\* C7: no deadlock on nesting: under fair scheduling and delivery every
\* tools/call of check_sampling_capability or check_roots_capability that
\* the controller sends eventually receives its response.
C7_NoDeadlock ==
    /\ CallSent("check_sampling_capability")
            ~> CallAnswered("check_sampling_capability")
    /\ CallSent("check_roots_capability")
            ~> CallAnswered("check_roots_capability")

\* Witness of C7: check_roots_capability was answered after the controller
\* replied, while awaiting that answer, to a createMessage request.
C7_Witness ==
    /\ CallAnswered("check_roots_capability")
    /\ \E k \in DOMAIN log :
        /\ Sent(log[k], "c", "response")
        /\ log[k].msg.method = "sampling/createMessage"

\* C10: on the controller side the initialize request is the first message
\* sent, the initialized notification is sent only after an initialize
\* response with a supported protocol version was received, and no other
\* request is sent before the initialized notification.
C10_HandshakeOrder ==
    \A i \in DOMAIN log :
        (log[i].side = "c" /\ log[i].ev = "send") =>
            /\ (\A j \in 1..(i - 1) : ~(log[j].side = "c" /\ log[j].ev = "send"))
                => /\ log[i].msg.kind = "request"
                   /\ log[i].msg.method = "initialize"
            /\ log[i].msg.method = "notifications/initialized"
                => \E j \in 1..(i - 1) :
                    /\ Received(log[j], "c", "response")
                    /\ log[j].msg.method = "initialize"
                    /\ log[j].msg.version \in SUPPORTED_PROTOCOL_VERSIONS
            /\ (log[i].msg.kind = "request" /\ log[i].msg.method # "initialize")
                => \E j \in 1..(i - 1) :
                    /\ Sent(log[j], "c", "notification")
                    /\ log[j].msg.method = "notifications/initialized"

\* Witness of C10: the controller has sent a request after the handshake.
C10_Witness ==
    \E i \in DOMAIN log :
        /\ Sent(log[i], "c", "request")
        /\ log[i].msg.method = "ping"

(***************************************************************************)
(* Properties of the sampling callback (SamplingSpec)                      *)
(***************************************************************************)
\* A root descriptor: a file URI and, optionally, a name.
ParsesAsRoot(metadata) ==
    /\ metadata.given
    /\ metadata.uri.t = "str" /\ metadata.uri.scheme = "file"
    /\ metadata.name.t \in {"missing", "str"}

\* C8: the sampling callback handles a request as a root listing exactly
\* when its metadata parses as a root descriptor and as a text completion
\* otherwise, and that one handler produces the result.
C8_Disambiguation ==
    outcome.called =>
        /\ outcome.handler = IF ParsesAsRoot(payload.metadata) THEN "root"
                             ELSE "text"
        /\ outcome.exc = ""
        /\ outcome.result # NoResult

\* C9: for every createMessage payload the sampling callback returns a
\* result and never raises.
C9_NeverRaises == outcome.called => outcome.exc = ""

ReadyAt(i) ==
    \E j \in 1..(i - 1) :
        /\ Received(log[j], "s", "notification")
        /\ log[j].msg.method = "notifications/initialized"
        /\ \A k \in (j + 1)..(i - 1) :
                ~(Received(log[k], "s", "request")
                    /\ log[k].msg.method = "initialize")

Answered(i) ==
    \E k \in DOMAIN log :
        /\ Sent(log[k], "s", "response")
        /\ log[k].msg.id = log[i].msg.id

ErrorPieces == {"error", "Error: '", "Error: Permission denied accessing '",
                "Error executing tool ", "Error during sampling: ",
                "Error during root capability check: "}
\* A response that reports a failure: a JSON-RPC error, an isError result,
\* or a result whose text is an error text.
Failed(m) ==
    \/ ~m.ok
    \/ m.isError
    \/ m.content # << >> /\ m.content[1][1] \in ErrorPieces

\* The provider took at log entry i a request whose handler fails.
FailingCall(i) ==
    /\ Received(log[i], "s", "request")
    /\ ReadyAt(i)
    /\ \/ /\ log[i].msg.method = "tools/call"
          /\ log[i].msg.name = "list_directory"
          /\ log[i].msg.arg \in {"missing", "locked"}
       \/ /\ log[i].msg.method = "resources/read"
          /\ log[i].msg.name = "fs://chunks/missing"
       \/ /\ log[i].msg.method = "tools/call"
          /\ \E k \in (i + 1)..Len(log) :
                /\ Received(log[k], "s", "response")
                /\ log[k].call = log[i].msg.id
                /\ ~log[k].msg.ok

Served(k) ==
    /\ k + 1 \in DOMAIN log
    /\ log[k + 1].side = "s" /\ log[k + 1].ev = "send"
    /\ \/ log[k + 1].msg.kind = "response" /\ log[k + 1].msg.id = log[k].msg.id
       \/ log[k + 1].msg.kind = "request" /\ log[k + 1].call = log[k].msg.id

\* C13: a handler that fails (a path that is no directory or no file, a listing
\* that is denied, a request to the peer that the peer rejects) produces an
\* error result for its own call; the session stays ready, so that every
\* request that the provider takes in a ready session, those after a failed
\* call included, is served; the provider session ends only on a request
\* that arrives before the handshake is complete.
C13_FailureIsolated ==
    /\ \A i \in DOMAIN log :
        FailingCall(i) =>
            \A j \in (i + 1)..Len(log) :
                (Sent(log[j], "s", "response")
                    /\ log[j].msg.id = log[i].msg.id)
                => /\ Failed(log[j].msg)
                   /\ log[j].msg.ok
    /\ \A k \in DOMAIN log :
        (Received(log[k], "s", "request") /\ ReadyAt(k)) => Served(k)
    /\ srvInit = "Closed" =>
            \E i \in DOMAIN log :
                /\ Received(log[i], "s", "request")
                /\ log[i].msg.method # "initialize"
                /\ ~ReadyAt(i)

\* Witness of C13: a call failed on a request that the peer rejected, and a
\* request taken after the error result was served.
C13_Witness ==
    \E i \in DOMAIN log : \E j \in DOMAIN log : \E k \in DOMAIN log :
        /\ FailingCall(i)
        /\ log[i].msg.name = "check_sampling_capability"
        /\ j > i /\ Sent(log[j], "s", "response")
        /\ log[j].msg.id = log[i].msg.id
        /\ k > j /\ Received(log[k], "s", "request") /\ Served(k)

\* A second case of C13: the listing of a directory was denied.
C13_WitnessDenied ==
    \E i \in DOMAIN log : \E k \in DOMAIN log :
        /\ FailingCall(i)
        /\ log[i].msg.arg = "locked"
        /\ Served(i)
        /\ k > i /\ Received(log[k], "s", "request") /\ Served(k)

(***************************************************************************)
(* Properties of resource subscriptions (PeerSpec)                         *)
(***************************************************************************)
\* C19: unsubscribe never fails: every resources/unsubscribe request that a
\* ready provider takes, for a URI that was subscribed or not, the first
\* time or again, is answered without an error, and so is the
\* resources/subscribe request that precedes it.
C19_UnsubscribeIdempotent ==
    \A i \in DOMAIN log :
        (Sent(log[i], "s", "response")
            /\ log[i].msg.method \in {"resources/subscribe",
                                      "resources/unsubscribe"})
        => log[i].msg.ok

(***************************************************************************)
(* Properties of the resolution of resource URIs (ResolveSpec)             *)
(***************************************************************************)
Reverse(seq) == [i \in DOMAIN seq |-> seq[Len(seq) + 1 - i]]

\* The registered entries that a URI matches.
Matching(s, u) ==
    {e \in {Resources(s)[i] : i \in DOMAIN Resources(s)} : e.pattern = u}
    \cup {e \in {Templates(s)[i] : i \in DOMAIN Templates(s)} :
            matches(e.pattern, u)}

\* C21: every URI matches at most one registered entry: no URI matches both
\* templates, fs://sample matches no template, and the entry a URI resolves
\* to is the same whatever the order in which the templates were
\* registered.
C21_UniqueEntry ==
    /\ Cardinality(Matching(server, uri)) <= 1
    /\ \A i \in DOMAIN Templates(server) :
            ~matches(Templates(server)[i].pattern, SampleUri)
    /\ resolved # NoEntry =>
        /\ resolved = get_resource(Resources(server),
                                   Reverse(Templates(server)), uri)
        /\ Matching(server, uri) =
                IF resolved = UnknownResource THEN {} ELSE {resolved}

\* A URI of the plural template was resolved, past the singular template
\* registered before it.
C21_Witness ==
    /\ resolved.fn = "read_file_chunks"
    /\ Len(uri) = MaxUriLen

\* A chunk URI was resolved.
C21_WitnessChunk == resolved.fn = "get_file_chunk"

\* The static URI was resolved.
C21_WitnessSample == resolved.fn = "get_sample_resource"

\* C23: every chunk URI that a successful metadata read lists is readable:
\* reading fs://chunk/{file}/k for a listed k of the unchanged file, the
\* single k = 0 listed for an empty text included, returns a chunk and
\* never an error.
C23_ListedReadable ==
    (/\ MetaRead
     /\ meta.error = ""
     /\ chunk.read
     /\ ChunkLink(file, chunk.index) \in
            {meta.chunks[i] : i \in DOMAIN meta.chunks})
    => ~IsErrorText(chunk.out)

(***************************************************************************)
(* Properties that compare the two sampling callbacks (SamplingSpec)       *)
(***************************************************************************)
\* C30: for every createMessage payload (metadata absent, an empty map, an
\* invalid map, a valid root descriptor) handle_sampling_message of
\* MCP/client.py runs its root handler exactly when sampling_callback of
\* mcp_client_explorer.py runs its root handler.
C30_SameDecision ==
    /\ handle_sampling_message(payload).handler = "root"
        <=> sampling_callback(payload).handler = "root"
    /\ outcome.called =>
        /\ outcome.handler = handle_sampling_message(payload).handler
        /\ outcome.handler = sampling_callback(payload).handler

\* The explorer controller ran its root handler on a valid root descriptor.
C30_Witness ==
    /\ client = "explorer"
    /\ outcome.called
    /\ outcome.handler = "root"

\* The explorer controller ran its text handler on an empty map, which the
\* basic controller rejects by validation.
C30_WitnessEmptyMap ==
    /\ client = "explorer"
    /\ outcome.called
    /\ payload.metadata = Metadata(NoVal, NoVal)
    /\ outcome.handler = "text"

(***************************************************************************)
(* Properties of the root content request (Spec)                           *)
(***************************************************************************)
\* The createMessage request that the handler of check_roots_capability
\* sent through get_root_content.
RootContentRequest(e) ==
    /\ Sent(e, "s", "request")
    /\ e.msg.method = "sampling/createMessage"
    /\ e.tool = "check_roots_capability"

RootModels == {"root-reader", "root-reader-v2"}

\* C26: the createMessage request that check_roots_capability issues through
\* get_root_content has an empty message list and the first root of
\* roots/list as metadata, and the sampling callback of the controller
\* hands it to the root handler, never to the text handler, whichever root
\* the roots callback of the controller returns.
C26_RootDispatch ==
    /\ \A c \in Clients : \A i \in DOMAIN list_roots_callback(c) :
          SamplingCallback(c,
              get_root_content(list_roots_callback(c)[i],
                               list_roots_callback(c)).params).handler
            = "root"
    /\ \A i \in DOMAIN log :
          RootContentRequest(log[i]) =>
            /\ log[i].msg.params.messages = << >>
            /\ log[i].msg.params.metadata =
                  Metadata(list_roots_callback(client)[1].uri,
                           list_roots_callback(client)[1].name)
            /\ SamplingCallback(client, log[i].msg.params).handler = "root"
            /\ \A j \in DOMAIN log :
                  (/\ Sent(log[j], "c", "response")
                   /\ log[j].msg.method = "sampling/createMessage"
                   /\ log[j].msg.id = log[i].msg.id)
                  => log[j].msg.result.model \in RootModels

\* The controller answered the request of get_root_content from its root
\* handler.
C26_Witness ==
    \E i, j \in DOMAIN log :
        /\ RootContentRequest(log[i])
        /\ i < j
        /\ Sent(log[j], "c", "response")
        /\ log[j].msg.id = log[i].msg.id
        /\ log[j].msg.result.model \in RootModels

(***************************************************************************)
(* Properties of the requests in flight (Spec)                             *)
(***************************************************************************)
\* The requests of one side that still await their response: sent, and no
\* response with their id received by that side since.
Outstanding(side) ==
    {i \in DOMAIN log :
        /\ Sent(log[i], side, "request")
        /\ ~\E j \in DOMAIN log :
              /\ j > i
              /\ Received(log[j], side, "response")
              /\ log[j].msg.id = log[i].msg.id}

\* C27: in every state of a session at most one request of the controller
\* and at most one request of the provider await a response, and a request
\* of the provider awaits its response only while a tools/call request of
\* the controller awaits its own.
C27_OneInFlight ==
    /\ Cardinality(Outstanding("c")) <= 1
    /\ Cardinality(Outstanding("s")) <= 1
    /\ Outstanding("s") # {} =>
          \E i \in Outstanding("c") : log[i].msg.method = "tools/call"

\* A request of the provider and the tools/call it serves both await their
\* responses.
C27_Witness ==
    /\ Cardinality(Outstanding("s")) = 1
    /\ \E i \in Outstanding("c") :
          /\ log[i].msg.method = "tools/call"
          /\ \E k \in Outstanding("s") : log[k].call = log[i].msg.id

(***************************************************************************)
(* Properties of the handshake of the explorer controller (FairSpec)       *)
(***************************************************************************)
\* The controller has received the initialize response and sent the
\* initialized notification, and its script went on to the ping.
HandshakeCompleted ==
    /\ \E i \in DOMAIN log :
          /\ Received(log[i], "c", "response")
          /\ log[i].msg.method = "initialize"
    /\ \E i \in DOMAIN log :
          /\ Sent(log[i], "c", "notification")
          /\ log[i].msg.method = "notifications/initialized"
    /\ \E i \in DOMAIN log :
          /\ Sent(log[i], "c", "request")
          /\ log[i].msg.method = "ping"

\* C25: run_comprehensive_demo of the explorer controller, run against a
\* provider that answers every request with a supported version, eventually
\* completes the handshake: it receives the initialize response, sends the
\* initialized notification and goes on to ping and discovery.
C25_HandshakeCompletes ==
    (client = "explorer" /\ serverVersion \in SUPPORTED_PROTOCOL_VERSIONS)
        ~> HandshakeCompleted

\* The same property of run() of MCP/client.py, which enters its session.
BasicHandshakeCompletes ==
    (client = "basic" /\ serverVersion \in SUPPORTED_PROTOCOL_VERSIONS)
        ~> HandshakeCompleted

(***************************************************************************)
(* Properties of the methods of the explorer controller (ExplorerSpec)     *)
(***************************************************************************)
\* The progress notifications the controller sent, in the order of sending.
IsProgress(e) ==
    Sent(e, "c", "notification") /\ e.msg.method = "notifications/progress"
ProgressSent == SelectSeq(log, IsProgress)

FracLeq(p, q) == p[1] * q[2] <= q[1] * p[2]
FracLess(p, q) == p[1] * q[2] < q[1] * p[2]

\* At most 5 notifications, all for the token demo-progress, the k-th with
\* progress k/5 of total 1; no failure has left the method, and while the
\* method runs none has occurred: every step so far has sent.
ProgressWellFormed ==
    /\ Len(ProgressSent) <= 5
    /\ \A k \in DOMAIN ProgressSent :
          LET m == ProgressSent[k].msg
          IN  /\ m.name = "demo-progress"
              /\ m.progress = << k, 5 >>
              /\ m.total = << 1, 1 >>
              /\ FracLeq(<< 0, 1 >>, m.progress)
              /\ FracLeq(m.progress, m.total)
              /\ k > 1 => FracLess(ProgressSent[k - 1].msg.progress,
                                   m.progress)
              /\ k = 5 => FracLeq(m.total, m.progress)
    /\ cpc # "raised"
    /\ cpc = "run" => Len(ProgressSent) = cstep - 1

\* C22: send_progress_updates sends at most 5 progress notifications for
\* the token demo-progress, with the progress values k/5 for k = 1..5 in
\* strictly increasing order, each with 0 <= progress <= total = 1 and the
\* last equal to total; when sending one fails, the method returns without
\* raising and no further notification is sent.
C22_ProgressUpdates ==
    [][cmethod = "send_progress_updates" =>
          /\ ProgressWellFormed'
          /\ cpc = "done" => ProgressSent' = ProgressSent]_vars

\* All five notifications were sent.
C22_Witness ==
    /\ cmethod = "send_progress_updates"
    /\ cpc = "done"
    /\ Len(ProgressSent) = 5

\* Sending the third notification failed.
C22_WitnessFailure ==
    /\ cmethod = "send_progress_updates"
    /\ session
    /\ cpc = "done"
    /\ Len(ProgressSent) = 2

\* The controller received the result of its call of the tool, and the
\* result is not flagged as an error.
CallReturned(tool) ==
    \E i \in DOMAIN log :
        /\ Received(log[i], "c", "response")
        /\ log[i].msg.method = "tools/call"
        /\ log[i].msg.name = tool
        /\ log[i].msg.ok
        /\ ~log[i].msg.isError

\* The handler of the tool got an answer to the request it sent to the
\* controller.
HandlerGot(tool, requested) ==
    \E i \in DOMAIN log :
        /\ Received(log[i], "s", "response")
        /\ log[i].tool = tool
        /\ log[i].msg.method = requested
        /\ log[i].msg.ok

\* The check tool reported success: the sampling round trip completed, the
\* roots were listed, the experimental key was advertised.
ReportedSuccess(key) ==
    CASE key = "sampling" ->
            /\ CallReturned("check_sampling_capability")
            /\ HandlerGot("check_sampling_capability",
                          "sampling/createMessage")
      [] key = "roots" ->
            /\ CallReturned("check_roots_capability")
            /\ HandlerGot("check_roots_capability", "roots/list")
      [] OTHER ->
            /\ CallReturned("check_experimental_tools_capability")
            /\ "experimental" \in peerCaps

TestReturned == cmethod = "test_client_capabilities" /\ cpc = "done"

\* C24: test_client_capabilities records a capability (sampling, roots,
\* experimental_tools) as true exactly when the check tool of the provider
\* reported success for it, and as false when the tool is missing, reported
\* the capability unsupported, returned an error, or the call raised.
C24_RecordsSuccess ==
    TestReturned =>
        \A key \in CapabilityKeys :
            client_capabilities[key] =
                IF ReportedSuccess(key) THEN "True" ELSE "False"

\* What the method does record: no capability is ever recorded as true,
\* also when every check tool reported success.
NeverRecordedTrue ==
    \A key \in CapabilityKeys :
        client_capabilities[key] = "False" /\ results[key] # "True"
AllReportedSuccess ==
    TestReturned /\ \A key \in CapabilityKeys : ReportedSuccess(key)

\* The tools/call requests the controller sent.
CallsSent ==
    {i \in DOMAIN log :
        Sent(log[i], "c", "request") /\ log[i].msg.method = "tools/call"}

\* C28: a controller never sends a tools/call for a name that is not in the
\* list of tools it last obtained from tools/list: every call of a tool in
\* the scripts of both controllers is guarded by membership in that list,
\* and no tools/call is sent at all when the list is empty because the
\* discovery failed or found nothing.
C28_CallsGuarded ==
    /\ \A c \in Clients : \A i \in DOMAIN Script(c) :
          Script(c)[i].method = "tools/call"
          => Script(c)[i].guard = Script(c)[i].name
    /\ \A m \in Methods : \A i \in DOMAIN MethodScript(m) :
          MethodScript(m)[i].method = "tools/call"
          => MethodScript(m)[i].guard = MethodScript(m)[i].name
    /\ \A i \in CallsSent : log[i].msg.name \in ctools
    /\ ctools = {} => CallsSent = {}

\* explore_filesystem returned on a list of tools without get_file_info:
\* it called the two tools of the list and not the third.
C28_Witness ==
    /\ cmethod = "explore_filesystem"
    /\ cpc = "done"
    /\ "get_file_info" \notin ctools
    /\ {log[i].msg.name : i \in CallsSent} = {"list_directory", "search_files"}

\* test_client_capabilities returned on an empty list of tools and an
\* open session: nothing was called.
C28_WitnessEmpty ==
    /\ cmethod = "test_client_capabilities"
    /\ session
    /\ cpc = "done"
    /\ ctools = {}
    /\ CallsSent = {}

\* The list requests in the order of discover_server_capabilities, the
\* list requests the controller sent, and the four cached lists.
ListMethods == << "prompts/list", "tools/list", "resources/templates/list",
                  "resources/list" >>
IsListRequest(e) ==
    Sent(e, "c", "request") /\ e.msg.method \in Names(ListMethods)
ListsSent == SelectSeq(log, IsListRequest)
Caches == << cprompts, ctools, ctemplates, cresources >>

\* C29: discover_server_capabilities sends the four list requests in the
\* order prompts, tools, resource templates, resources; a list request that
\* fails leaves the cached list of its kind as it was and the later list
\* requests are still sent; called without an initialized session the
\* method raises, changes no cached list and sends nothing.
C29_Discovery ==
    [][cmethod = "discover_server_capabilities" =>
          /\ Len(ListsSent') <= 4
          /\ \A k \in DOMAIN ListsSent' :
                ListsSent'[k].msg.method = ListMethods[k]
          /\ \A k \in 1..4 :
                Caches'[k] # Caches[k]
                => (cresp.ok /\ cresp.method = ListMethods[k])
          /\ (cresp # NoMsg /\ ~cresp.ok /\ cresp' = NoMsg)
                => (Caches' = Caches /\ cpc' # "raised")
          /\ (session /\ cpc' = "done") => Len(ListsSent') = 4
          /\ cpc' = "raised" => ~session
          /\ ~session => /\ cpc' = "raised"
                         /\ Caches' = Caches
                         /\ log' = log
                         /\ c2s' = c2s]_vars

\* The tools/list request failed: the method returned after all four
\* requests and the list of tools is the one the client held before.
C29_Witness ==
    /\ cmethod = "discover_server_capabilities"
    /\ cpc = "done"
    /\ Len(ListsSent) = 4
    /\ ctools # {}
    /\ ctools # Names(ToolNames(server))
    /\ cprompts = PromptNames(server)
    /\ \E i \in DOMAIN log :
          /\ Received(log[i], "c", "response")
          /\ log[i].msg.method = "tools/list"
          /\ ~log[i].msg.ok

\* The method raised on a client without a session.
C29_WitnessNoSession ==
    /\ cmethod = "discover_server_capabilities"
    /\ cpc = "raised"
    /\ log = << >>

=============================================================================
